---- MODULE Spec2Model ----
(***************************************************************************)
(* A model of the process-lifecycle core of wheel-rs (src/process):        *)
(*   - process_utils.rs : terminate_process / wait_for_process_exit /      *)
(*                        check_process                                     *)
(*   - signal_utils.rs  : send_signal_by_instruction, watch_signal          *)
(*   - pid_utils.rs, pid_file_guard.rs : the PID file and its guard         *)
(* Each subsystem has its own specification (SpecTerm, SpecWatch, SpecPid); *)
(* the variables of the other subsystems stay at their initial values.      *)
(***************************************************************************)
EXTENDS Integers, Sequences, FiniteSets, TLC

VARIABLES
    \* ---- terminate_process(pid, wait_timeout, retry_interval) ----
    tpid,            \* argument pid
    wait_timeout,    \* argument wait_timeout, in timer ticks
    retry_interval,  \* argument retry_interval, in timer ticks
    target,          \* the OS process behind tpid: "alive", "foreign", "gone"
    tpc,             \* position of the call
    now,             \* ticks elapsed since the call started
    deadline,        \* tick at which the timeout wrapper's delay is due
    wake,            \* tick at which the current sleep is due
    sendRes,         \* result of send_signal_by_instruction inside the call
    tres,            \* outcome of the call
    termSignals,     \* signals this call delivered to the target, in order
    probeSeen,       \* the set of answers check_process has given
    lastProbe,       \* the answer of the latest check_process
    lastProbeAt,     \* the tick of the latest check_process (-1: none)
    lastErrno,       \* what libc::kill(pid, 0) answered in that check_process
    exitedAt,        \* tick at which the signalled target exited (-1: not)
    probeAtExit,     \* the value of lastProbeAt when the target exited
    \* ---- watch_signal() and the holders of its Receiver ----
    wpc,             \* position of the spawned watcher task
    wpanic,          \* the panic message of the task ("" when none)
    dcount,          \* number of watched signals the OS has delivered so far
    pendSeq,         \* per signal class: 0, or the delivery number of the
                     \* first delivery its stream has not yet yielded
    sent,            \* every value the Sender has queued, oldest first
    rstate,          \* per handle: "unused", "live" or "dropped"
    rnext,           \* per handle: number of queued values already passed
    rlog,            \* per handle: the values recv() has returned, in order
    rlast,           \* per handle: the kind of the latest recv() result
    \* ---- the PID file and the processes that use it ----
    dirent,          \* the inode the PID file path names, 0 when it names none
    inodes,          \* per inode: its text (empty while the inode is free)
    file0,           \* whether the path named a file at the start, and its text
    pop,             \* per process: the function it is in, or "none"
    ppc,             \* per process: the next step of that function
    pfd,             \* per process: the inode of its opened file, or 0
    pres,            \* per process: the result of its latest finished call
    done,            \* per process: how many calls it has finished, and the
                     \* function of the latest one
    touched,         \* per process: another process changed the file since
                     \* this one opened it
    removed,         \* what the latest step removed: by whom, in which
                     \* function, the text, whether the remover was overtaken
    overtaken,       \* some delete_pid_file_if_my_process removed the file
                     \* after it had been overtaken
    guard,           \* per process: its PidFileGuard for the path: "none",
                     \* "held" or "dropped"
    writer,          \* the process whose write_pid was the last to change
                     \* the file, and whether it has gone from File::create
                     \* to its return with no other change to the file
    rfile,           \* read_pid on its own: the file at the path it is given
    rres,            \* read_pid on its own: what it has returned
    sinstr,          \* send_signal_by_instruction on its own: the instruction
    spid,            \* ... the pid it is given
    starget,         \* ... the state of the process with that pid
    skills,          \* ... the calls of kill() it has made, in order
    sres,            \* ... what it has returned
    opc,             \* a second watch_signal() call: where its task stands
    opendSeq,        \* ... per class: delivery number its stream holds, or 0
    osent,           \* ... the values queued on its channel
    orecv,           \* ... its Receiver: "none", "live" or "dropped"
    olog,            \* ... the values that Receiver has received
    gpath,           \* get_pid_file_path on its own: the path it is given
    gout,            \* ... what it returned, and what it returned for that
    uin,             \* Urn::new on its own: the text it is given
    ures             \* ... the Urn it returned, or the panic it raised

tvars == <<tpid, wait_timeout, retry_interval, target, tpc, now, deadline,
           wake, sendRes, tres, termSignals, probeSeen, lastProbe,
           lastProbeAt, lastErrno, exitedAt, probeAtExit>>

wvars == <<wpc, wpanic, dcount, pendSeq, sent, rstate, rnext, rlog, rlast>>

pvars == <<dirent, inodes, file0, pop, ppc, pfd, pres, done, touched, removed,
          overtaken, guard, writer>>

rvars == <<rfile, rres>>

svars == <<sinstr, spid, starget, skills, sres>>

ovars == <<opc, opendSeq, osent, orecv, olog>>

gvars == <<gpath, gout>>

uvars == <<uin, ures>>

\* the parts that are modelled on their own
fvars == <<rvars, svars, ovars, gvars, uvars>>

vars == <<tvars, wvars, pvars, fvars>>

----------------------------------------------------------------------------
(* Bounds of the model *)

MaxTimeout == 3
MaxInterval == 3
MaxSignals == 2
MaxHandles == 2
MaxOps == 2
MaxLen == 3

TargetPids == {1234, 5678}

----------------------------------------------------------------------------
(* Text: a string is a sequence of one-character strings *)

UpperChars == <<"A","B","C","D","E","F","G","H","I","J","K","L","M",
                "N","O","P","Q","R","S","T","U","V","W","X","Y","Z">>
LowerChars == <<"a","b","c","d","e","f","g","h","i","j","k","l","m",
                "n","o","p","q","r","s","t","u","v","w","x","y","z">>

\* char::to_lowercase on the ASCII range
to_lowercase_char(c) ==
    IF \E k \in 1..26 : UpperChars[k] = c
    THEN LowerChars[CHOOSE k \in 1..26 : UpperChars[k] = c]
    ELSE c

\* str::to_lowercase
to_lowercase_none(s) == s
to_lowercase(s) == [i \in 1..Len(s) |-> to_lowercase_char(s[i])]

----------------------------------------------------------------------------
(* Signals and the OS primitive kill(2) *)

SIGHUP  == 1
SIGINT  == 2
SIGQUIT == 3
SIGKILL == 9
SIGTERM == 15
SIGCONT == 18

\* Signal::to_string, used in SignalError::SendSignal
SignalName(sig) ==
    CASE sig = SIGHUP  -> "SIGHUP"
      [] sig = SIGINT  -> "SIGINT"
      [] sig = SIGQUIT -> "SIGQUIT"
      [] sig = SIGKILL -> "SIGKILL"
      [] sig = SIGTERM -> "SIGTERM"
      [] sig = SIGCONT -> "SIGCONT"
      [] OTHER         -> "?"

\* kill(pid, sig) for sig /= 0, decided by the state of the target process:
\* it exists and may be signalled, it exists under another user, or there is
\* no such process.
OsKill(tgt) ==
    CASE tgt = "alive"   -> "OK"
      [] tgt = "foreign" -> "EPERM"
      [] OTHER           -> "ESRCH"

\* The errno values kill(pid, 0) can give for a target in state tgt.  "EOTHER"
\* stands for every errno other than ESRCH and EPERM.
OsProbe(tgt) ==
    CASE tgt = "alive"   -> {"OK", "EOTHER"}
      [] tgt = "foreign" -> {"EPERM", "EOTHER"}
      [] OTHER           -> {"ESRCH", "EOTHER"}

----------------------------------------------------------------------------
(* Results *)

\* kind: "None" (no outcome yet), "Ok", "Err" (an Err(..) value returned to the
\* caller) or "Panic" (the task unwound: nothing was returned).
NoResult == [kind |-> "None", err |-> "", pid |-> 0, msg |-> ""]
OkResult == [kind |-> "Ok", err |-> "", pid |-> 0, msg |-> ""]
ErrResult(e, p, m) == [kind |-> "Err", err |-> e, pid |-> p, msg |-> m]
PanicResult(m) == [kind |-> "Panic", err |-> "", pid |-> 0, msg |-> m]

----------------------------------------------------------------------------
(* signal_utils.rs: send_signal_by_instruction *)

InstrHangup    == <<"h","a","n","g","u","p">>
InstrCont      == <<"c","o","n","t">>
InstrInterrupt == <<"i","n","t","e","r","r","u","p","t">>
InstrStop      == <<"s","t","o","p">>
InstrTerminate == <<"t","e","r","m","i","n","a","t","e">>
InstrQuit      == <<"q","u","i","t">>
InstrKill      == <<"k","i","l","l">>

\* The match of send_signal_by_instruction on the lower-cased text: the
\* signal number, or 0 for the default arm (InvalidInstruction).
InstructionSignal_default(lowered) ==
    IF lowered = InstrKill THEN SIGKILL ELSE SIGTERM

InstructionSignal_escalate(lowered) ==
    CASE lowered = InstrHangup    -> SIGHUP
      [] lowered = InstrCont      -> SIGCONT
      [] lowered = InstrInterrupt -> SIGINT
      [] lowered = InstrStop      -> SIGTERM
      [] lowered = InstrTerminate -> SIGKILL
      [] lowered = InstrQuit      -> SIGQUIT
      [] lowered = InstrKill      -> SIGKILL
      [] OTHER                    -> 0

InstructionSignal_sigstop(lowered) ==
    CASE lowered = InstrHangup    -> SIGHUP
      [] lowered = InstrCont      -> SIGCONT
      [] lowered = InstrInterrupt -> SIGINT
      [] lowered = InstrStop      -> SIGTERM + 4
      [] lowered = InstrTerminate -> SIGTERM
      [] lowered = InstrQuit      -> SIGQUIT
      [] lowered = InstrKill      -> SIGKILL
      [] OTHER                    -> 0

InstructionSignal(lowered) ==
    CASE lowered = InstrHangup    -> SIGHUP
      [] lowered = InstrCont      -> SIGCONT
      [] lowered = InstrInterrupt -> SIGINT
      [] lowered = InstrStop      -> SIGTERM
      [] lowered = InstrTerminate -> SIGTERM
      [] lowered = InstrQuit      -> SIGQUIT
      [] lowered = InstrKill      -> SIGKILL
      [] OTHER                    -> 0

\* send_signal_by_instruction(instruction, pid) when the OS answers kill()
\* with errno: the result, and the signal that reached kill() (0: kill() was
\* not called).
send_signal_by_instruction(instruction, pid, errno) ==
    LET signal == InstructionSignal(to_lowercase(instruction)) IN
    IF signal = 0
    THEN [res |-> ErrResult("InvalidInstruction", 0,
                            to_lowercase(instruction)),
          killed |-> 0]
    ELSE IF errno = "OK"
         THEN [res |-> OkResult, killed |-> signal]
         ELSE [res |-> ErrResult("SendSignal", 0, SignalName(signal)),
               killed |-> signal]

----------------------------------------------------------------------------
(* process_utils.rs: check_process *)

ProbeOk(b)  == [ok |-> TRUE, alive |-> b, msg |-> ""]
ProbeErr(e) == [ok |-> FALSE, alive |-> FALSE, msg |-> e]

\* check_process(pid) when libc::kill(pid, 0) answers errno
check_process_strict(errno) ==
    IF errno = "OK" THEN ProbeOk(TRUE)
    ELSE IF errno = "ESRCH" THEN ProbeOk(FALSE) ELSE ProbeErr(errno)

check_process(errno) ==
    IF errno = "OK"
    THEN ProbeOk(TRUE)
    ELSE CASE errno = "ESRCH" -> ProbeOk(FALSE)
           [] errno = "EPERM" -> ProbeOk(TRUE)
           [] OTHER           -> ProbeErr(errno)

\* What a probe is remembered as
ProbeAnswer(r) == IF ~r.ok THEN "err" ELSE IF r.alive THEN "alive" ELSE "dead"

----------------------------------------------------------------------------
(* process_utils.rs: terminate_process and wait_for_process_exit.           *)
(*                                                                          *)
(* Time is counted in ticks of the runtime's timer, from the start of the   *)
(* call.  Synchronous code takes no time; time passes only while the task   *)
(* is suspended in sleep(retry_interval), and the runtime resumes the task  *)
(* as soon as the sleep or the timeout's delay is due.  tokio's Timeout     *)
(* polls the wrapped future first and its delay only when that future is    *)
(* pending.  A sleep always suspends the task once, also a sleep of zero    *)
(* length, and time may pass before the task runs again.                    *)

Terminal == {"Exited", "TimedOut", "Failed", "Panicked"}

\* Guard of the model only: no tick is needed beyond this one.
MaxTime == MaxTimeout + MaxInterval + 2

\* timeout(wait_timeout, ..): the tick at which the delay is due
TimeoutDeadline(start, timeout) == start + timeout

\* the delay of the timeout wrapper is due
timeout_elapsed_late(t, dl) == t > dl + retry_interval
timeout_elapsed(t, dl) == t >= dl

\* tokio::time::sleep(retry_interval): the tick at which the sleep is due
SleepUntil_long(start, interval) == start + interval + 1
SleepUntil(start, interval) == start + interval

\* the sleep is due
sleep_elapsed(t, w) == t >= w

\* ProcessError::TerminateProcessTimeout(pid)
TerminateProcessTimeout(pid) == ErrResult("TerminateProcessTimeout", pid, "")

\* ProcessError::CheckProcess(e.to_string())
CheckProcessError(r) == ErrResult("CheckProcess", 0, r.msg)

\* .expect("Failed to send signal: ") on the result of the send: the call goes
\* on when it is Ok and the task panics when it is Err.
expect_sent_ignoring(res) == "Signaled"
expect_sent(res) == IF res.kind = "Ok" THEN "Signaled" ELSE "Panicked"

\* Where one evaluation of the loop leaves the call, given the probe's result r
\* at tick t with the delay due at dl: `?` returns the error, a false
\* condition ends the loop with Ok(()), a true one sleeps, and the task being
\* pending the wrapper reports Elapsed when its delay is due.
poll_outcome_swallow(r, t, dl) ==
    IF r.ok /\ ~r.alive THEN "Exited"
    ELSE IF timeout_elapsed(t, dl) THEN "TimedOut" ELSE "Sleeping"
poll_outcome_delay_first(r, t, dl) ==
    IF timeout_elapsed(t, dl) THEN "TimedOut"
    ELSE IF ~r.ok THEN "Failed"
    ELSE IF ~r.alive THEN "Exited"
    ELSE "Sleeping"
poll_outcome_elapsed_ok(r, t, dl) ==
    IF ~r.ok THEN "Failed"
    ELSE IF ~r.alive \/ timeout_elapsed(t, dl) THEN "Exited"
    ELSE "Sleeping"
poll_outcome(r, t, dl) ==
    IF ~r.ok THEN "Failed"
    ELSE IF ~r.alive THEN "Exited"
    ELSE IF timeout_elapsed(t, dl) THEN "TimedOut"
    ELSE "Sleeping"

\* The value wait_for_process_exit returns in that position
poll_result(next, pid, r) ==
    CASE next = "Failed"   -> CheckProcessError(r)
      [] next = "Exited"   -> OkResult
      [] next = "TimedOut" -> TerminateProcessTimeout(pid)
      [] OTHER             -> NoResult

TermInit ==
    /\ tpid \in TargetPids
    /\ wait_timeout \in 0..MaxTimeout
    /\ retry_interval \in 0..MaxInterval
    /\ target \in {"alive", "foreign", "gone"}
    /\ tpc = "Called"
    /\ now = 0
    /\ deadline = 0
    /\ wake = 0
    /\ sendRes = NoResult
    /\ tres = NoResult
    /\ termSignals = <<>>
    /\ probeSeen = {}
    /\ lastProbe = "none"
    /\ lastProbeAt = -1
    /\ lastErrno = "none"
    /\ exitedAt = -1
    /\ probeAtExit = -1

\* terminate_process, first statement:
\*   send_signal_by_instruction("terminate", pid).expect("Failed to send signal: ")
SendTerminate ==
    /\ UNCHANGED <<wvars, pvars, fvars>>
    /\ tpc = "Called"
    /\ LET errno == OsKill(target)
           r == send_signal_by_instruction(InstrTerminate, tpid, errno)
       IN /\ sendRes' = r.res
          /\ termSignals' = IF r.killed /= 0 /\ errno = "OK"
                            THEN Append(termSignals, r.killed)
                            ELSE termSignals
          /\ tpc' = expect_sent(r.res)
          /\ tres' = IF expect_sent(r.res) = "Panicked"
                     THEN PanicResult("Failed to send signal: ")
                     ELSE tres
    /\ UNCHANGED <<tpid, wait_timeout, retry_interval, target, now, deadline,
                   wake, probeSeen, lastProbe, lastProbeAt,
                   lastErrno, exitedAt, probeAtExit>>

\* wait_for_process_exit is entered: timeout(wait_timeout, async move {..})
EnterPolling ==
    /\ UNCHANGED <<wvars, pvars, fvars>>
    /\ tpc = "Signaled"
    /\ tpc' = "Polling"
    /\ deadline' = TimeoutDeadline(now, wait_timeout)
    /\ UNCHANGED <<tpid, wait_timeout, retry_interval, target, now, wake,
                   sendRes, tres, termSignals, probeSeen, lastProbe,
                   lastProbeAt,
                   lastErrno, exitedAt, probeAtExit>>

\* One evaluation of `while check_process(pid)? { sleep(retry_interval).await }`
\* up to the point where the task returns or is suspended, followed by the
\* timeout wrapper's look at its delay.
Poll ==
    /\ UNCHANGED <<wvars, pvars, fvars>>
    /\ tpc = "Polling"
    /\ \E errno \in OsProbe(target) :
         LET r == check_process(errno)
             next == poll_outcome(r, now, deadline)
         IN /\ probeSeen' = probeSeen \cup {ProbeAnswer(r)}
            /\ lastProbe' = ProbeAnswer(r)
            /\ lastProbeAt' = now
            /\ lastErrno' = errno
            /\ tpc' = next
            /\ tres' = poll_result(next, tpid, r)
            /\ wake' = IF next \in {"Sleeping", "TimedOut"}
                       THEN SleepUntil(now, retry_interval)
                       ELSE wake
    /\ UNCHANGED <<tpid, wait_timeout, retry_interval, target, now, deadline,
                   sendRes, termSignals, exitedAt, probeAtExit>>

\* The sleep is due: the task is resumed and the loop condition is evaluated
\* again (the wrapped future is polled before the delay).
SleepElapsed ==
    /\ UNCHANGED <<wvars, pvars, fvars>>
    /\ tpc = "Sleeping"
    /\ sleep_elapsed(now, wake)
    /\ tpc' = "Polling"
    /\ UNCHANGED <<tpid, wait_timeout, retry_interval, target, now, deadline,
                   wake, sendRes, tres, termSignals, probeSeen, lastProbe,
                   lastProbeAt,
                   lastErrno, exitedAt, probeAtExit>>

\* The delay is due while the loop is still asleep:
\*   .map_err(|_| ProcessError::TerminateProcessTimeout(pid))
DeadlineElapsed ==
    /\ UNCHANGED <<wvars, pvars, fvars>>
    /\ tpc = "Sleeping"
    /\ ~sleep_elapsed(now, wake)
    /\ timeout_elapsed(now, deadline)
    /\ tpc' = "TimedOut"
    /\ tres' = TerminateProcessTimeout(tpid)
    /\ UNCHANGED <<tpid, wait_timeout, retry_interval, target, now, deadline,
                   wake, sendRes, termSignals, probeSeen, lastProbe,
                   lastProbeAt,
                   lastErrno, exitedAt, probeAtExit>>

\* One tick passes while the task is suspended and no timer is due (after a
\* sleep of zero length a tick may pass before the task runs again).
Tick ==
    /\ UNCHANGED <<wvars, pvars, fvars>>
    /\ tpc = "Sleeping"
    /\ ~timeout_elapsed(now, deadline)
    /\ (~sleep_elapsed(now, wake) \/ retry_interval = 0)
    /\ now < MaxTime
    /\ now' = now + 1
    /\ UNCHANGED <<tpid, wait_timeout, retry_interval, target, tpc, deadline,
                   wake, sendRes, tres, termSignals, probeSeen, lastProbe,
                   lastProbeAt,
                   lastErrno, exitedAt, probeAtExit>>

\* The target process exits (on the signal, or on its own before it).
TargetExit ==
    /\ UNCHANGED <<wvars, pvars, fvars>>
    /\ tpc \notin Terminal
    /\ target \in {"alive", "foreign"}
    /\ target' = "gone"
    /\ exitedAt' = IF tpc = "Called" THEN -1 ELSE now
    /\ probeAtExit' = lastProbeAt
    /\ UNCHANGED <<tpid, wait_timeout, retry_interval, tpc, now, deadline,
                   wake, sendRes, tres, termSignals, probeSeen, lastProbe,
                   lastProbeAt,
                   lastErrno>>

\* The signalled target changes its credentials: it still exists, but the
\* caller may no longer signal it.
TargetChangesUser ==
    /\ UNCHANGED <<wvars, pvars, fvars>>
    /\ tpc \in {"Signaled", "Polling", "Sleeping"}
    /\ target = "alive"
    /\ target' = "foreign"
    /\ UNCHANGED <<tpid, wait_timeout, retry_interval, tpc, now, deadline,
                   wake, sendRes, tres, termSignals, probeSeen, lastProbe,
                   lastProbeAt,
                   lastErrno, exitedAt, probeAtExit>>

\* The steps of the call itself
TermStep ==
    \/ SendTerminate
    \/ EnterPolling
    \/ Poll
    \/ SleepElapsed
    \/ DeadlineElapsed
    \/ Tick

\* No call of terminate_process is under way
TermIdle ==
    /\ tpid = 0
    /\ wait_timeout = 0
    /\ retry_interval = 0
    /\ target = "gone"
    /\ tpc = "Idle"
    /\ now = 0
    /\ deadline = 0
    /\ wake = 0
    /\ sendRes = NoResult
    /\ tres = NoResult
    /\ termSignals = <<>>
    /\ probeSeen = {}
    /\ lastProbe = "none"
    /\ lastProbeAt = -1
    /\ lastErrno = "none"
    /\ exitedAt = -1
    /\ probeAtExit = -1

----------------------------------------------------------------------------
(* signal_utils.rs: watch_signal and watch_signal_internal.                 *)
(*                                                                          *)
(* The OS delivers watched signals to the process; a registered tokio       *)
(* signal stream remembers that its signal arrived (several arrivals of one *)
(* class before the stream is polled count once).  select! takes one of the *)
(* branches that are ready, chosen at random.  The broadcast channel keeps  *)
(* the last ChannelCapacity values; Sender::send fails when no Receiver is  *)
(* alive.                                                                   *)

ChannelCapacity == 16

\* the five registered signal classes
Watched == {SIGHUP, SIGCONT, SIGINT, SIGQUIT, SIGTERM}

\* the branches of the select! that end with `break`
TerminalSignals == {SIGINT, SIGQUIT, SIGTERM}

Handles == 1..MaxHandles

LiveHandles == {h \in Handles : rstate[h] = "live"}

\* A queued value: the signal, the number of its (first) delivery and the
\* number of deliveries that had happened when the watcher took it.
Event(sig) == [sig |-> sig, dseq |-> pendSeq[sig], hseq |-> dcount]

\* Sender::send(value): the queue afterwards; with no Receiver alive the value
\* is handed back in Err(SendError) and nothing is queued.
Queue_front(q, v) == <<v>> \o q
Queue(q, v) == Append(q, v)

\* sender.send(signal).expect(..): whether the send is Ok
send_ok(receivers) == receivers /= {}

\* the message of .expect(format!("send signal error: {signal}"))
SendPanic(sig) == "send signal error: " \o SignalName(sig)

\* where the select! branch of sig leaves the task after a successful send
after_branch_continue(sig) == "Watching"
after_branch(sig) == IF sig \in TerminalSignals THEN "Stopped" ELSE "Watching"

\* The streams in the order in which watch_signal_internal registers them
RegOrder == <<SIGHUP, SIGCONT, SIGINT, SIGQUIT, SIGTERM>>

\* Where the task stands before its loop: spawned and not run yet, or after
\* the first, second, third or fourth signal(..) call
Registering == {"Spawned", "Reg1", "Reg2", "Reg3", "Reg4"}

\* number of streams the task holds in position pc
StageOf(pc) ==
    CASE pc = "Reg1" -> 1 [] pc = "Reg2" -> 2 [] pc = "Reg3" -> 3
      [] pc = "Reg4" -> 4 [] pc = "Watching" -> 5 [] OTHER -> 0

\* the classes whose stream exists in position pc
Registered_all(pc) ==
    IF pc \in Registering THEN Watched
    ELSE {RegOrder[i] : i \in 1..StageOf(pc)}
Registered(pc) == {RegOrder[i] : i \in 1..StageOf(pc)}

\* the position after one more signal(..) call
NextStage(pc) ==
    CASE pc = "Spawned" -> "Reg1" [] pc = "Reg1" -> "Reg2"
      [] pc = "Reg2" -> "Reg3" [] pc = "Reg3" -> "Reg4"
      [] pc = "Reg4" -> "Watching"

\* The Sender lives in the task: it is dropped when the task ends.
SenderAlive_always == TRUE
SenderAlive == wpc \in Registering \cup {"Watching"}

\* number of values a Receiver at position n has missed for good
Lag(n) == (Len(sent) - ChannelCapacity) - n

\* State right after watch_signal() has returned: the channel exists with the
\* one Receiver that was returned, the task is spawned and has not run yet.
WatchInit ==
    /\ wpc = "Spawned"
    /\ wpanic = ""
    /\ dcount = 0
    /\ pendSeq = [s \in Watched |-> 0]
    /\ sent = <<>>
    /\ rstate = [h \in Handles |-> IF h = 1 THEN "live" ELSE "unused"]
    /\ rnext = [h \in Handles |-> 0]
    /\ rlog = [h \in Handles |-> <<>>]
    /\ rlast = [h \in Handles |-> "none"]

\* watch_signal() has not been called
WatchIdle ==
    /\ wpc = "Idle"
    /\ wpanic = ""
    /\ dcount = 0
    /\ pendSeq = [s \in Watched |-> 0]
    /\ sent = <<>>
    /\ rstate = [h \in Handles |-> "unused"]
    /\ rnext = [h \in Handles |-> 0]
    /\ rlog = [h \in Handles |-> <<>>]
    /\ rlast = [h \in Handles |-> "none"]

\* watch_signal_internal registers the next of its five streams; after the
\* fifth it is in its loop
Register ==
    /\ UNCHANGED <<tvars, pvars, fvars>>
    /\ wpc \in Registering
    /\ wpc' = NextStage(wpc)
    /\ UNCHANGED <<wpanic, dcount, pendSeq, sent, rstate, rnext, rlog, rlast>>

\* a signal(..) call fails: `?` returns RegisterSignalHandler and the task's
\* .expect("watch signal error") panics
RegisterFails ==
    /\ UNCHANGED <<tvars, pvars, fvars>>
    /\ wpc \in Registering
    /\ wpc' = "Panicked"
    /\ wpanic' = "watch signal error"
    /\ pendSeq' = [s \in Watched |-> 0]
    /\ UNCHANGED <<dcount, sent, rstate, rnext, rlog, rlast>>

\* The OS delivers a watched signal to the process, the number of
\* deliveries being kept within limit.  Before the stream of its class is
\* registered, and after the task has ended, this watcher does not see it.
DeliverWithin(sig, limit) ==
    /\ UNCHANGED <<tvars, pvars, fvars>>
    /\ wpc \in Registering \cup {"Watching", "Stopped", "Panicked"}
    /\ dcount < limit
    /\ dcount' = dcount + 1
    /\ pendSeq' = IF sig \in Registered(wpc) /\ pendSeq[sig] = 0
                  THEN [pendSeq EXCEPT ![sig] = dcount + 1]
                  ELSE pendSeq
    /\ UNCHANGED <<wpc, wpanic, sent, rstate, rnext, rlog, rlast>>

Deliver(sig) == DeliverWithin(sig, MaxSignals)

\* One turn of the loop: select! takes the ready branch of sig, broadcasts it
\* and breaks on a terminal class.  When the task ends its streams are
\* dropped, and what they had pending with them.
Handle(sig) ==
    /\ UNCHANGED <<tvars, pvars, fvars>>
    /\ wpc = "Watching"
    /\ pendSeq[sig] /= 0
    /\ IF send_ok(LiveHandles)
       THEN /\ sent' = Queue(sent, Event(sig))
            /\ wpc' = after_branch(sig)
            /\ wpanic' = wpanic
       ELSE /\ sent' = sent
            /\ wpc' = "Panicked"
            /\ wpanic' = SendPanic(sig)
    /\ pendSeq' = IF wpc' = "Watching"
                  THEN [pendSeq EXCEPT ![sig] = 0]
                  ELSE [s \in Watched |-> 0]
    /\ UNCHANGED <<dcount, rstate, rnext, rlog, rlast>>

\* Receiver::recv() completes: with the next value, with Lagged (the values
\* missed are skipped) or with Closed.
Recv(h) ==
    /\ UNCHANGED <<tvars, pvars, fvars>>
    /\ rstate[h] = "live"
    /\ (rnext[h] < Len(sent) \/ ~SenderAlive)
    /\ rlast[h] /= "Closed"
    /\ IF Lag(rnext[h]) > 0
       THEN /\ rnext' = [rnext EXCEPT ![h] = Len(sent) - ChannelCapacity]
            /\ rlast' = [rlast EXCEPT ![h] = "Lagged"]
            /\ rlog' = rlog
       ELSE IF rnext[h] < Len(sent)
       THEN /\ rnext' = [rnext EXCEPT ![h] = rnext[h] + 1]
            /\ rlast' = [rlast EXCEPT ![h] = "Value"]
            /\ rlog' = [rlog EXCEPT ![h] = Append(rlog[h], sent[rnext[h] + 1])]
       ELSE /\ rnext' = rnext
            /\ rlast' = [rlast EXCEPT ![h] = "Closed"]
            /\ rlog' = rlog
    /\ UNCHANGED <<wpc, wpanic, dcount, pendSeq, sent, rstate>>

\* the holder drops its Receiver, and what it had received goes with it
DropHandle(h) ==
    /\ UNCHANGED <<tvars, pvars, fvars>>
    /\ rstate[h] = "live"
    /\ rstate' = [rstate EXCEPT ![h] = "dropped"]
    /\ rnext' = [rnext EXCEPT ![h] = 0]
    /\ rlog' = [rlog EXCEPT ![h] = <<>>]
    /\ rlast' = [rlast EXCEPT ![h] = "none"]
    /\ UNCHANGED <<wpc, wpanic, dcount, pendSeq, sent>>

\* Receiver::resubscribe(): a new Receiver that sees only later values
Resubscribe(h, g) ==
    /\ UNCHANGED <<tvars, pvars, fvars>>
    /\ rstate[h] = "live"
    /\ rstate[g] = "unused"
    /\ \A k \in Handles : rstate[k] = "unused" => g <= k
    /\ rstate' = [rstate EXCEPT ![g] = "live"]
    /\ rnext' = [rnext EXCEPT ![g] = Len(sent)]
    /\ UNCHANGED <<wpc, wpanic, dcount, pendSeq, sent, rlog, rlast>>

\* A watcher that has been in its loop for a while: Backlog signals of the
\* classes that do not end the loop were delivered and broadcast, one after
\* the other, and the Receiver that watch_signal() returned has received
\* none of them or all of them.
BacklogEvent(i) ==
    [sig |-> IF i % 2 = 1 THEN SIGHUP ELSE SIGCONT, dseq |-> i, hseq |-> i]

Backlogs == {ChannelCapacity - 1, ChannelCapacity}

LagInit ==
    /\ wpc = "Watching"
    /\ wpanic = ""
    /\ dcount \in Backlogs
    /\ pendSeq = [s \in Watched |-> 0]
    /\ sent = [i \in 1..dcount |-> BacklogEvent(i)]
    /\ rstate = [h \in Handles |-> IF h = 1 THEN "live" ELSE "unused"]
    /\ rnext \in {[h \in Handles |-> IF h = 1 THEN n ELSE 0] : n \in {0, dcount}}
    /\ rlog = [h \in Handles |-> IF h = 1 /\ rnext[h] /= 0 THEN sent ELSE <<>>]
    /\ rlast = [h \in Handles |-> IF h = 1 /\ rnext[h] /= 0 THEN "Value" ELSE "none"]

----------------------------------------------------------------------------
(* pid_utils.rs (and the same code in pid_file_guard.rs): one PID file path *)
(* shared by processes.  Each file-system call of a function is one step;   *)
(* steps of different processes interleave.  The path names an inode or     *)
(* nothing; an opened file stays readable and writable after its name is    *)
(* removed.  File texts are sequences of one-character strings.             *)

\* the processes, named by their process ids
Procs == {1234, 56789}

Digits == <<"0", "1", "2", "3", "4", "5", "6", "7", "8", "9">>

IsDigit(c) == \E i \in 1..10 : Digits[i] = c

DigitValue(c) == (CHOOSE i \in 1..10 : Digits[i] = c) - 1

\* u32::to_string
RECURSIVE to_string(_)
to_string(n) ==
    IF n < 10 THEN <<Digits[n + 1]>>
    ELSE to_string(n \div 10) \o <<Digits[(n % 10) + 1]>>

Whitespace == {" ", "\t", "\n", "\r"}

RECURSIVE trim_start(_)
trim_start(s) ==
    IF s /= <<>> /\ Head(s) \in Whitespace THEN trim_start(Tail(s)) ELSE s

RECURSIVE trim_end(_)
trim_end(s) ==
    IF s /= <<>> /\ s[Len(s)] \in Whitespace
    THEN trim_end(SubSeq(s, 1, Len(s) - 1))
    ELSE s

\* str::trim
trim(s) == trim_end(trim_start(s))

RECURSIVE UpToNewline(_)
UpToNewline(s) ==
    IF s = <<>> \/ Head(s) = "\n" THEN <<>>
    ELSE <<Head(s)>> \o UpToNewline(Tail(s))

\* BufRead::lines().next() on a text that has a line: the text up to the first
\* "\n", without a "\r" just before it
first_line(s) ==
    LET l == UpToNewline(s)
    IN IF l /= <<>> /\ Len(l) < Len(s) /\ l[Len(l)] = "\r"
       THEN SubSeq(l, 1, Len(l) - 1)
       ELSE l

I32Max == 2147483647

RECURSIVE DigitsValue(_)
DigitsValue(ds) ==
    IF ds = <<>> THEN 0
    ELSE 10 * DigitsValue(SubSeq(ds, 1, Len(ds) - 1)) + DigitValue(ds[Len(ds)])

\* results of the PID functions: Ok(Some(pid)), Ok(None) or Ok(()), Err(e)
PidNoResult == [kind |-> "None", some |-> FALSE, pid |-> 0, err |-> ""]
PidSome(pid) == [kind |-> "Ok", some |-> TRUE, pid |-> pid, err |-> ""]
PidOk == [kind |-> "Ok", some |-> FALSE, pid |-> 0, err |-> ""]
PidErr(e) == [kind |-> "Err", some |-> FALSE, pid |-> 0, err |-> e]

\* str::parse::<pid_t>: an optional sign and at least one digit, within i32
\* (texts here have at most nine digits)
parse_pid_t(s) ==
    LET signed == s /= <<>> /\ Head(s) \in {"+", "-"}
        ds == IF signed THEN Tail(s) ELSE s
        v == IF s /= <<>> /\ Head(s) = "-" THEN 0 - DigitsValue(ds)
             ELSE DigitsValue(ds)
    IN IF ds = <<>> \/ Len(ds) > 9 \/ \E i \in DOMAIN ds : ~IsDigit(ds[i])
       THEN PidErr("ParsePidFileContent")
       ELSE IF v > I32Max \/ v < (0 - I32Max) - 1
       THEN PidErr("ParsePidFileContent")
       ELSE PidSome(v)

\* read_pid from the opened file on: first line, trim, parse
read_text_parse_only(text) == parse_pid_t(trim(first_line(text)))
read_text(text) ==
    IF text = <<>> THEN PidErr("ReadPidFile")
    ELSE parse_pid_t(trim(first_line(text)))

\* `if let Ok(Some(pid)) = read_pid(..) && pid == process::id() as pid_t`
is_my_process_any(r, me) == r.kind = "Ok" /\ r.some
is_my_process(r, me) == r.kind = "Ok" /\ r.some /\ r.pid = me

\* a write of bytes at offset 0 of a file holding old
WriteAtStart(old, bytes) ==
    bytes \o SubSeq(old, Len(bytes) + 1, Len(old))

Ops == {"write_pid", "read_pid", "delete_pid_file_if_my_process",
        "delete_pid_file"}

\* "drop" is Drop for PidFileGuard, which runs delete_pid_file_if_my_process
FirstStep(op) ==
    CASE op = "write_pid" -> "create"
      [] op = "read_pid" -> "exists"
      [] op = "delete_pid_file_if_my_process" -> "exists"
      [] op = "drop" -> "exists"
      [] op = "delete_pid_file" -> "remove"

\* File::create on a file that is there empties it
truncate_keep(text) == text
truncate(text) == <<>>

\* Drop for PidFileGuard: `let _ = self.delete_pid_file_if_my_process()
\* .map_err(|e| warn!(..))`: the outcome is discarded, an error is logged
drop_result_propagate(r) == r
drop_result(r) == [kind |-> "Ok", some |-> FALSE, pid |-> 0, err |-> r.err]

\* what the caller of op gets when the function's body ends with r
returned(op, r) == IF op = "drop" THEN drop_result(r) ELSE r

\* what the path may hold before any call: nothing, or one of these texts
InitialTexts ==
    { to_string(1234), to_string(56789), <<>>,
      <<"9", "9", "9", "9", "9", "\n">>, <<"a", "b", "c">> }

\* An inode is in use while the path names it or a process has it open, so
\* one more inode than there are processes is always enough.
Inodes == 1..(Cardinality(Procs) + 1)

InUse(i, d, fd) == i = d \/ \E p \in Procs : fd[p] = i

\* the file system frees an inode that nothing refers to any more
Collect(ino, d, fd) ==
    [i \in Inodes |-> IF InUse(i, d, fd) THEN ino[i] ELSE <<>>]

FreeInode == CHOOSE i \in Inodes : ~InUse(i, dirent, pfd) /\
                 \A k \in Inodes : ~InUse(k, dirent, pfd) => i <= k

\* std::fs::remove_file on a path that names file d (0: names nothing): what
\* the path names afterwards, and what delete_pid_file returns
remove_file_keep(d) == d
remove_file(d) == 0

remove_result_lenient(d) == PidOk
remove_result(d) == IF d = 0 THEN PidErr("DeletePidFile") ELSE PidOk

NoWriter == [pid |-> 0, state |-> "none"]

NoRemoval == [by |-> 0, op |-> "none", text |-> <<>>, raced |-> FALSE]

PidInit ==
    /\ \/ /\ dirent = 0
          /\ inodes = [i \in Inodes |-> <<>>]
          /\ file0 = [present |-> FALSE, text |-> <<>>]
       \/ \E t \in InitialTexts :
          /\ dirent = 1
          /\ inodes = [i \in Inodes |-> IF i = 1 THEN t ELSE <<>>]
          /\ file0 = [present |-> TRUE, text |-> t]
    /\ pop = [p \in Procs |-> "none"]
    /\ ppc = [p \in Procs |-> "idle"]
    /\ pfd = [p \in Procs |-> 0]
    /\ pres = [p \in Procs |-> PidNoResult]
    /\ done = [p \in Procs |-> [n |-> 0, last |-> "none"]]
    /\ touched = [p \in Procs |-> FALSE]
    /\ removed = NoRemoval
    /\ overtaken = FALSE
    /\ guard = [p \in Procs |-> "none"]
    /\ writer = NoWriter

\* no process uses the PID file
PidIdle ==
    /\ dirent = 0
    /\ inodes = [i \in Inodes |-> <<>>]
    /\ file0 = [present |-> FALSE, text |-> <<>>]
    /\ pop = [p \in Procs |-> "none"]
    /\ ppc = [p \in Procs |-> "idle"]
    /\ pfd = [p \in Procs |-> 0]
    /\ pres = [p \in Procs |-> PidNoResult]
    /\ done = [p \in Procs |-> [n |-> 0, last |-> "none"]]
    /\ touched = [p \in Procs |-> FALSE]
    /\ removed = NoRemoval
    /\ overtaken = FALSE
    /\ guard = [p \in Procs |-> "none"]
    /\ writer = NoWriter

\* the function p is in returns r
Return(p, r) ==
    /\ pop' = [pop EXCEPT ![p] = "none"]
    /\ ppc' = [ppc EXCEPT ![p] = "idle"]
    /\ pres' = [pres EXCEPT ![p] = returned(pop[p], r)]
    /\ done' = [done EXCEPT ![p] = [n |-> done[p].n + 1, last |-> pop[p]]]

\* p changes the file: every other process that has opened the file to read
\* it, or has read it and is about to remove it, has been overtaken
Overtake(p) ==
    [q \in Procs |->
        IF q /= p /\ ppc[q] \in {"read", "remove"} THEN TRUE ELSE touched[q]]

\* process p calls one of the functions
Call(p, op) ==
    /\ UNCHANGED <<tvars, wvars, fvars>>
    /\ pop[p] = "none"
    /\ done[p].n < MaxOps
    /\ pop' = [pop EXCEPT ![p] = op]
    /\ ppc' = [ppc EXCEPT ![p] = FirstStep(op)]
    /\ touched' = [touched EXCEPT ![p] = FALSE]
    /\ removed' = NoRemoval
    /\ UNCHANGED <<dirent, inodes, file0, guard, writer, pfd, pres, done, overtaken>>

\* a PidFileGuard value for the path comes into being: the struct holds the
\* path only, and making it touches no file
MakeGuard(p) ==
    /\ UNCHANGED <<tvars, wvars, fvars>>
    /\ guard[p] = "none"
    /\ pop[p] = "none"
    /\ guard' = [guard EXCEPT ![p] = "held"]
    /\ removed' = NoRemoval
    /\ UNCHANGED <<dirent, inodes, file0, pop, ppc, pfd, pres, done, touched,
                   overtaken, writer>>

\* the guard of p goes out of scope: Drop::drop starts
DropGuard(p) ==
    /\ UNCHANGED <<tvars, wvars, fvars>>
    /\ guard[p] = "held"
    /\ pop[p] = "none"
    /\ done[p].n < MaxOps
    /\ guard' = [guard EXCEPT ![p] = "dropped"]
    /\ pop' = [pop EXCEPT ![p] = "drop"]
    /\ ppc' = [ppc EXCEPT ![p] = FirstStep("drop")]
    /\ touched' = [touched EXCEPT ![p] = FALSE]
    /\ removed' = NoRemoval
    /\ UNCHANGED <<dirent, inodes, file0, pfd, pres, done, overtaken,
                   writer>>

\* write_pid: File::create makes the file or empties the one that is there
Create(p) ==
    /\ UNCHANGED <<tvars, wvars, fvars>>
    /\ ppc[p] = "create"
    /\ dirent' = IF dirent = 0 THEN FreeInode ELSE dirent
    /\ inodes' = [inodes EXCEPT ![dirent'] = truncate(@)]
    /\ pfd' = [pfd EXCEPT ![p] = dirent']
    /\ ppc' = [ppc EXCEPT ![p] = "flush"]
    /\ touched' = Overtake(p)
    /\ removed' = NoRemoval
    /\ writer' = [pid |-> p, state |-> "creating"]
    /\ UNCHANGED <<file0, guard, pop, pres, done, overtaken>>

\* write_pid: write_all fills the BufWriter; the bytes reach the file when the
\* writer is dropped at the return
Flush(p) ==
    /\ UNCHANGED <<tvars, wvars, fvars>>
    /\ ppc[p] = "flush"
    /\ pfd' = [pfd EXCEPT ![p] = 0]
    /\ inodes' = Collect([inodes EXCEPT
                              ![pfd[p]] = WriteAtStart(@, to_string(p))],
                          dirent, pfd')
    /\ touched' = Overtake(p)
    /\ Return(p, PidOk)
    /\ removed' = NoRemoval
    /\ writer' = IF writer = [pid |-> p, state |-> "creating"]
                 THEN [pid |-> p, state |-> "written"]
                 ELSE NoWriter
    /\ UNCHANGED <<dirent, file0, guard, overtaken>>

\* write_pid: File::create fails (no permission, no directory): the error is
\* mapped to CreatePidFile and nothing has changed
CreateFails(p) ==
    /\ UNCHANGED <<tvars, wvars, fvars>>
    /\ ppc[p] = "create"
    /\ Return(p, PidErr("CreatePidFile"))
    /\ removed' = NoRemoval
    /\ UNCHANGED <<dirent, inodes, file0, guard, writer, pfd, touched,
                   overtaken>>

\* write_pid: the file system rejects the write (disk full, I/O error) after
\* k of the bytes. write_all has only filled the BufWriter and has returned
\* Ok; the write to the file happens in the drop of the BufWriter at the
\* return, which discards the error: write_pid returns Ok(())
FlushFails(p, k) ==
    /\ UNCHANGED <<tvars, wvars, fvars>>
    /\ ppc[p] = "flush"
    /\ k < Len(to_string(p))
    /\ pfd' = [pfd EXCEPT ![p] = 0]
    /\ inodes' = Collect([inodes EXCEPT
                              ![pfd[p]] = WriteAtStart(@,
                                  SubSeq(to_string(p), 1, k))],
                          dirent, pfd')
    /\ touched' = Overtake(p)
    /\ Return(p, PidOk)
    /\ removed' = NoRemoval
    /\ writer' = IF writer = [pid |-> p, state |-> "creating"]
                 THEN [pid |-> p, state |-> "failed"]
                 ELSE NoWriter
    /\ UNCHANGED <<dirent, file0, guard, overtaken>>

\* read_pid: `if !pid_file_path.exists() { return Ok(None) }`; in
\* delete_pid_file_if_my_process Ok(None) fails the `if let` and Ok(()) returns
Exists(p) ==
    /\ UNCHANGED <<tvars, wvars, fvars>>
    /\ ppc[p] = "exists"
    /\ IF dirent = 0
       THEN Return(p, PidOk)
       ELSE /\ ppc' = [ppc EXCEPT ![p] = "open"]
            /\ UNCHANGED <<pop, pres, done>>
    /\ removed' = NoRemoval
    /\ UNCHANGED <<dirent, inodes, file0, guard, writer, pfd, touched, overtaken>>

\* read_pid: File::open; an error is returned by read_pid and is swallowed by
\* the `if let` of delete_pid_file_if_my_process
Open(p) ==
    /\ UNCHANGED <<tvars, wvars, fvars>>
    /\ ppc[p] = "open"
    /\ IF dirent = 0
       THEN /\ Return(p, IF pop[p] = "read_pid" THEN PidErr("OpenPidFile")
                         ELSE PidOk)
            /\ pfd' = pfd
       ELSE /\ ppc' = [ppc EXCEPT ![p] = "read"]
            /\ pfd' = [pfd EXCEPT ![p] = dirent]
            /\ UNCHANGED <<pop, pres, done>>
    /\ touched' = [touched EXCEPT ![p] = FALSE]
    /\ removed' = NoRemoval
    /\ UNCHANGED <<dirent, inodes, file0, guard, writer, overtaken>>

\* read_pid: read the first line of the opened file, trim and parse it; then,
\* in delete_pid_file_if_my_process, the comparison with the own pid
Read(p) ==
    /\ UNCHANGED <<tvars, wvars, fvars>>
    /\ ppc[p] = "read"
    /\ LET r == read_text(inodes[pfd[p]])
       IN IF pop[p] = "read_pid"
          THEN Return(p, r)
          ELSE IF is_my_process(r, p)
          THEN /\ ppc' = [ppc EXCEPT ![p] = "remove"]
               /\ UNCHANGED <<pop, pres, done>>
          ELSE Return(p, PidOk)
    /\ pfd' = [pfd EXCEPT ![p] = 0]
    /\ inodes' = Collect(inodes, dirent, pfd')
    /\ removed' = NoRemoval
    /\ UNCHANGED <<dirent, file0, guard, writer, touched, overtaken>>

\* delete_pid_file: std::fs::remove_file removes whatever the path names now
Remove(p) ==
    /\ UNCHANGED <<tvars, wvars, fvars>>
    /\ ppc[p] = "remove"
    /\ IF dirent = 0
       THEN /\ Return(p, remove_result(dirent))
            /\ removed' = NoRemoval
            /\ UNCHANGED <<dirent, inodes, touched, overtaken>>
       ELSE /\ Return(p, remove_result(dirent))
            /\ dirent' = remove_file(dirent)
            /\ inodes' = Collect(inodes, 0, pfd)
            /\ removed' = [by |-> p, op |-> pop[p],
                           text |-> inodes[dirent], raced |-> touched[p]]
            /\ overtaken' = (overtaken \/ (touched[p] /\
                                 pop[p] = "delete_pid_file_if_my_process"))
            /\ touched' = Overtake(p)
    /\ writer' = IF dirent = 0 THEN writer ELSE NoWriter
    /\ UNCHANGED <<file0, guard, pfd>>

----------------------------------------------------------------------------
(* read_pid on its own, as a function of the file it finds: the path names no
   file, or a file holding any text of at most MaxLen characters.           *)

Alphabet == {"0", "1", "-", "a", " ", "\n"}

Texts == UNION {[1..k -> Alphabet] : k \in 0..MaxLen}

NoFile == [present |-> FALSE, text |-> <<>>]

ParseInit ==
    /\ rfile \in {NoFile} \cup {[present |-> TRUE, text |-> t] : t \in Texts}
    /\ rres = PidNoResult

ParseIdle ==
    /\ rfile = NoFile
    /\ rres = PidNoResult

\* read_pid: Ok(None) when the path does not exist, else the first line of the
\* file, trimmed and parsed
read_pid(f) == IF ~f.present THEN PidOk ELSE read_text(f.text)

ReadPid ==
    /\ UNCHANGED <<tvars, wvars, pvars, svars, ovars, gvars, uvars>>
    /\ rres = PidNoResult
    /\ rres' = read_pid(rfile)
    /\ UNCHANGED rfile

----------------------------------------------------------------------------
(* send_signal_by_instruction on its own: one call with an instruction in any
   case, valid or not, for a pid whose process is alive, is another user's,
   or does not exist.                                                       *)

UpperOf(c) ==
    IF \E k \in 1..26 : LowerChars[k] = c
    THEN UpperChars[CHOOSE k \in 1..26 : LowerChars[k] = c]
    ELSE c

\* a lower-case text as it is, in upper case, and with a capital first letter
CaseForms(t) ==
    {t, [i \in 1..Len(t) |-> UpperOf(t[i])],
        [i \in 1..Len(t) |-> IF i = 1 THEN UpperOf(t[i]) ELSE t[i]]}

ValidInstructions ==
    {InstrHangup, InstrCont, InstrInterrupt, InstrStop, InstrTerminate,
     InstrQuit, InstrKill}

InvalidInstructions ==
    {<<>>, <<"e","x","p","l","o","d","e">>, <<"k","i","l">>,
     <<"k","i","l","l","s">>, <<"s","t","o","p"," ">>,
     <<"s","i","g","t","e","r","m">>, <<"9">>}

Instructions ==
    UNION {CaseForms(t) : t \in ValidInstructions \cup InvalidInstructions}

NoKills == <<>>

\* nix::sys::signal::kill(Pid::from_raw(pid), signal): one call of kill(2)
kill_retry(calls, pid, signal) ==
    calls \o <<[pid |-> pid, sig |-> signal], [pid |-> pid, sig |-> signal]>>

kill(calls, pid, signal) == Append(calls, [pid |-> pid, sig |-> signal])

SendInit ==
    /\ sinstr \in Instructions
    /\ spid \in TargetPids
    /\ starget \in {"alive", "foreign", "gone"}
    /\ skills = NoKills
    /\ sres = NoResult

SendIdle ==
    /\ sinstr = <<>>
    /\ spid = 0
    /\ starget = "gone"
    /\ skills = NoKills
    /\ sres = NoResult

SendSignal ==
    /\ UNCHANGED <<tvars, wvars, pvars, rvars, ovars, gvars, uvars>>
    /\ sres = NoResult
    /\ LET r == send_signal_by_instruction(sinstr, spid, OsKill(starget))
       IN /\ sres' = r.res
          /\ skills' = IF r.killed = 0 THEN skills
                       ELSE kill(skills, spid, r.killed)
    /\ UNCHANGED <<sinstr, spid, starget>>

----------------------------------------------------------------------------
(* Two calls of watch_signal() in one process.  The first watcher is the one
   above; the second has its own task, its own five streams, its own channel
   and the one Receiver its call returned.  tokio hands a signal that the OS
   delivers to the process to every stream registered for its class.  A
   panic of a spawned task ends that task only.                             *)

\* watch_signal: `let (sender, receiver) = broadcast::channel(16)` makes the
\* channel of the call: watcher w sends on channel w
ChannelOf_singleton(w) == 1
ChannelOf(w) == w

OtherEvent(sig) == [sig |-> sig, dseq |-> opendSeq[sig], hseq |-> dcount]

OtherInit ==
    /\ opc = "Spawned"
    /\ opendSeq = [s \in Watched |-> 0]
    /\ osent = <<>>
    /\ orecv = "live"
    /\ olog = <<>>

OtherIdle ==
    /\ opc = "Idle"
    /\ opendSeq = [s \in Watched |-> 0]
    /\ osent = <<>>
    /\ orecv = "none"
    /\ olog = <<>>

\* the second watch_signal_internal registers the next of its five streams
OtherRegister ==
    /\ UNCHANGED <<tvars, wvars, pvars, rvars, svars, gvars, uvars>>
    /\ opc \in Registering
    /\ opc' = NextStage(opc)
    /\ UNCHANGED <<opendSeq, osent, orecv, olog>>

\* The OS delivers a watched signal to the process: every registered stream
\* of its class, of either watcher, holds it.
DeliverBoth(sig) ==
    /\ UNCHANGED <<tvars, pvars, rvars, svars, gvars, uvars>>
    /\ dcount < MaxSignals
    /\ dcount' = dcount + 1
    /\ pendSeq' = IF sig \in Registered(wpc) /\ pendSeq[sig] = 0
                  THEN [pendSeq EXCEPT ![sig] = dcount + 1]
                  ELSE pendSeq
    /\ opendSeq' = IF sig \in Registered(opc) /\ opendSeq[sig] = 0
                   THEN [opendSeq EXCEPT ![sig] = dcount + 1]
                   ELSE opendSeq
    /\ UNCHANGED <<wpc, wpanic, sent, rstate, rnext, rlog, rlast>>
    /\ UNCHANGED <<opc, osent, orecv, olog>>

\* one turn of the loop of the second watcher
OtherHandle(sig) ==
    /\ UNCHANGED <<tvars, pvars, rvars, svars, gvars, uvars>>
    /\ opc = "Watching"
    /\ opendSeq[sig] /= 0
    /\ IF send_ok(IF orecv = "live" THEN {orecv} ELSE {})
       THEN /\ opc' = after_branch(sig)
            /\ IF ChannelOf(2) = 1
               THEN sent' = Queue(sent, OtherEvent(sig)) /\ osent' = osent
               ELSE osent' = Queue(osent, OtherEvent(sig)) /\ sent' = sent
       ELSE /\ opc' = "Panicked"
            /\ UNCHANGED <<sent, osent>>
    /\ opendSeq' = IF opc' = "Watching"
                   THEN [opendSeq EXCEPT ![sig] = 0]
                   ELSE [s \in Watched |-> 0]
    /\ UNCHANGED <<wpc, wpanic, dcount, pendSeq, rstate, rnext, rlog, rlast>>
    /\ UNCHANGED <<orecv, olog>>

\* the Receiver of the second call receives the next value of its channel
OtherRecv ==
    /\ UNCHANGED <<tvars, wvars, pvars, rvars, svars, gvars, uvars>>
    /\ orecv = "live"
    /\ Len(olog) < Len(osent)
    /\ olog' = Append(olog, osent[Len(olog) + 1])
    /\ UNCHANGED <<opc, opendSeq, osent, orecv>>

\* the holder drops the Receiver of the second call
OtherDrop ==
    /\ UNCHANGED <<tvars, wvars, pvars, rvars, svars, gvars, uvars>>
    /\ orecv = "live"
    /\ orecv' = "dropped"
    /\ olog' = <<>>
    /\ UNCHANGED <<opc, opendSeq, osent>>

----------------------------------------------------------------------------
(* pid_utils.rs: get_pid_file_path, on its own.  A path is its text.  As in
   std::path, a trailing "/" and a "." that is not the first component do
   not count, the file name is the last component unless that is "..", and
   the stem is the file name up to its last "." (the whole name when that
   "." is its first character or there is none).                            *)

PathChars == {"a", "b", ".", "/"}

Paths ==
    UNION {[1..k -> PathChars] : k \in 0..MaxLen}
        \cup {<<"a", ".", "p", "i", "d">>,
              <<"/", "v", "a", "r", "/", "r", "u", "n", "/", "m", "y", "a", "p", "p">>,
              <<"r", "u", "n", "/", "a", "p", "p", ".", "t", "a", "r", ".", "g", "z">>,
              <<"r", "u", "n", ".", "d", "/", "a", "p", "p", "/">>}

NoPath == <<"?">>

\* the path without what std::path skips at its end
RECURSIVE StripTrailing(_)
StripTrailing(p) ==
    IF p /= <<>> /\ p[Len(p)] = "/"
    THEN StripTrailing(SubSeq(p, 1, Len(p) - 1))
    ELSE IF Len(p) >= 2 /\ p[Len(p)] = "." /\ p[Len(p) - 1] = "/"
    THEN StripTrailing(SubSeq(p, 1, Len(p) - 1))
    ELSE p

\* position of the last c in p, 0 when there is none
LastOf(p, c) ==
    IF \E i \in 1..Len(p) : p[i] = c
    THEN CHOOSE i \in 1..Len(p) : p[i] = c /\ \A j \in (i + 1)..Len(p) : p[j] /= c
    ELSE 0

\* Path::file_name: <<>> stands for None
file_name(p) ==
    LET q == StripTrailing(p)
        name == SubSeq(q, LastOf(q, "/") + 1, Len(q))
    IN IF name \in {<<".">>, <<".", ".">>} THEN <<>> ELSE name

\* Path::file_stem of a path that has a file name
file_stem(p) ==
    LET name == file_name(p)
        dot == LastOf(name, ".")
    IN IF dot <= 1 THEN name ELSE SubSeq(name, 1, dot - 1)

\* Path::extension: NoPath stands for None
extension(p) ==
    LET name == file_name(p)
        dot == LastOf(name, ".")
    IN IF dot <= 1 THEN NoPath ELSE SubSeq(name, dot + 1, Len(name))

\* the text of the path before its file name
directory(p) == SubSeq(p, 1, LastOf(StripTrailing(p), "/"))

\* PathBuf::set_extension: nothing when the path has no file name; else the
\* text is cut right after the file stem and "." and the extension are added
add_extension(p, ext) ==
    IF file_name(p) = <<>> THEN p ELSE StripTrailing(p) \o <<".">> \o ext

set_extension(p, ext) ==
    IF file_name(p) = <<>> THEN p
    ELSE directory(p) \o file_stem(p) \o <<".">> \o ext

get_pid_file_path(app_file_path) ==
    set_extension(app_file_path, <<"p", "i", "d">>)

PathInit ==
    /\ gpath \in Paths
    /\ gout = <<>>

PathIdle ==
    /\ gpath = <<>>
    /\ gout = <<>>

\* get_pid_file_path(&gpath), and then get_pid_file_path of what it returned
GetPidFilePath ==
    /\ UNCHANGED <<tvars, wvars, pvars, rvars, svars, ovars, uvars>>
    /\ Len(gout) < 2
    /\ gout' = Append(gout, get_pid_file_path(
                                IF gout = <<>> THEN gpath ELSE gout[Len(gout)]))
    /\ UNCHANGED gpath

----------------------------------------------------------------------------
(* Urn::new on its own: one call with a text made of a word in any case,
   blanks around it, a ":" and a remainder that may be empty, blank or hold
   further colons, or with a text that has no ":" at all.                    *)

HttpPrefix == <<"h", "t", "t", "p", ":">>
HttpsPrefix == <<"h", "t", "t", "p", "s", ":">>

MethodWords ==
    {<<"g", "e", "t">>, <<"p", "o", "s", "t">>, <<"p", "u", "t">>,
     <<"d", "e", "l", "e", "t", "e">>, <<"h", "t", "t", "p">>,
     <<"h", "t", "t", "p", "s">>, <<"p", "a", "t", "c", "h">>, <<>>}

UrnPads == {<<>>, <<" ">>}

UrnRests ==
    {<<>>, <<" ">>, <<"a">>, <<" ", "a", " ">>, <<"a", ":", "b">>,
     <<":", "a">>, <<" ", "a", ".", "c", "o", ":", "8", "/", "x", ":", " ">>}

UrnInputs ==
    {l \o w \o r \o <<":">> \o u :
        l \in UrnPads, w \in UNION {CaseForms(m) : m \in MethodWords},
        r \in UrnPads, u \in UrnRests}
    \cup {<<>>, <<"g", "e", "t">>, <<"G", "E", "T", " ", "a">>,
          <<"h", "t", "t", "p">>}

\* str::starts_with
starts_with_never(s, prefix) == FALSE
starts_with(s, prefix) ==
    Len(s) >= Len(prefix) /\ SubSeq(s, 1, Len(prefix)) = prefix

\* position of the first c in s, 0 when there is none
FirstOf(s, c) ==
    IF \E i \in 1..Len(s) : s[i] = c
    THEN CHOOSE i \in 1..Len(s) : s[i] = c /\ \A j \in 1..(i - 1) : s[j] /= c
    ELSE 0

\* str::splitn(2, c) collected: the text before the first c and the text
\* after it, or the whole text alone when it has no c
splitn_last(s, c) ==
    IF LastOf(s, c) = 0 THEN <<s>>
    ELSE <<SubSeq(s, 1, LastOf(s, c) - 1), SubSeq(s, LastOf(s, c) + 1, Len(s))>>

splitn(s, c) ==
    IF FirstOf(s, c) = 0 THEN <<s>>
    ELSE <<SubSeq(s, 1, FirstOf(s, c) - 1),
           SubSeq(s, FirstOf(s, c) + 1, Len(s))>>

\* str::to_uppercase
to_uppercase(s) == [i \in 1..Len(s) |-> UpperOf(s[i])]

\* the match on the upper-cased method: "" stands for the arm that panics
MethodOf(m) ==
    CASE m = <<"G", "E", "T">> -> "Get"
      [] m = <<"P", "O", "S", "T">> -> "Post"
      [] m = <<"P", "U", "T">> -> "Put"
      [] m = <<"D", "E", "L", "E", "T", "E">> -> "Delete"
      [] OTHER -> ""

UrnNone == [kind |-> "None", method |-> "", url |-> <<>>, msg |-> ""]

UrnOk(method, url) ==
    [kind |-> "Ok", method |-> method, url |-> url, msg |-> ""]

\* a panic: the start of its message, and the text the message quotes
UrnPanic(msg, text) ==
    [kind |-> "Panic", method |-> "", url |-> text, msg |-> msg]

Urn_new(urn) ==
    IF starts_with(urn, HttpPrefix) \/ starts_with(urn, HttpsPrefix)
    THEN UrnOk("Get", urn)
    ELSE LET parts == splitn(urn, ":")
         IN IF Len(parts) < 2
            THEN UrnPanic("index out of bounds", urn)
            ELSE LET method == trim(parts[1])
                     url == trim(parts[2])
                 IN IF url = <<>>
                    THEN UrnPanic("Invalid URN", urn)
                    ELSE IF MethodOf(to_uppercase(method)) = ""
                    THEN UrnPanic("Invalid method", method)
                    ELSE UrnOk(MethodOf(to_uppercase(method)), url)

UrnInit ==
    /\ uin \in UrnInputs
    /\ ures = UrnNone

UrnIdle ==
    /\ uin = <<>>
    /\ ures = UrnNone

\* Urn::new(uin)
NewUrn ==
    /\ UNCHANGED <<tvars, wvars, pvars, rvars, svars, ovars, gvars>>
    /\ ures = UrnNone
    /\ ures' = Urn_new(uin)
    /\ UNCHANGED uin

----------------------------------------------------------------------------
(* The specifications: one per subsystem, the other subsystems at rest.     *)

\* none of the functions modelled on their own is called
CallsIdle == ParseIdle /\ SendIdle /\ OtherIdle /\ PathIdle /\ UrnIdle

InitTerm == TermInit /\ WatchIdle /\ PidIdle /\ CallsIdle

NextTerm ==
    \/ TermStep
    \/ TargetExit
    \/ TargetChangesUser

SpecTerm == InitTerm /\ [][NextTerm]_vars

InitWatch == WatchInit /\ TermIdle /\ PidIdle /\ CallsIdle

NextWatch ==
    \/ Register
    \/ RegisterFails
    \/ \E sig \in Watched : Deliver(sig)
    \/ \E sig \in Watched : Handle(sig)
    \/ \E h \in Handles : Recv(h)
    \/ \E h \in Handles : DropHandle(h)
    \/ \E h, g \in Handles : Resubscribe(h, g)

SpecWatch == InitWatch /\ [][NextWatch]_vars

InitPid == PidInit /\ TermIdle /\ WatchIdle /\ CallsIdle

NextPid ==
    \/ \E p \in Procs, op \in Ops : Call(p, op)
    \/ \E p \in Procs : Create(p)
    \/ \E p \in Procs : Flush(p)
    \/ \E p \in Procs : Exists(p)
    \/ \E p \in Procs : Open(p)
    \/ \E p \in Procs : Read(p)
    \/ \E p \in Procs : Remove(p)

SpecPid == InitPid /\ [][NextPid]_vars

\* one process holds a guard for the path; the other uses the path too
GuardOwners == {1234}

NextGuard ==
    \/ \E p \in GuardOwners : MakeGuard(p)
    \/ \E p \in GuardOwners : DropGuard(p)
    \/ \E p \in Procs, op \in Ops : Call(p, op)
    \/ \E p \in Procs : Create(p)
    \/ \E p \in Procs : Flush(p)
    \/ \E p \in Procs : Exists(p)
    \/ \E p \in Procs : Open(p)
    \/ \E p \in Procs : Read(p)
    \/ \E p \in Procs : Remove(p)

SpecGuard == InitPid /\ [][NextGuard]_vars

\* the PID file functions on a file system whose create and write can fail
NextDisk ==
    \/ \E p \in Procs, op \in Ops : Call(p, op)
    \/ \E p \in Procs : Create(p)
    \/ \E p \in Procs : CreateFails(p)
    \/ \E p \in Procs : Flush(p)
    \/ \E p \in Procs : \E k \in 0..(Len(to_string(p)) - 1) : FlushFails(p, k)
    \/ \E p \in Procs : Exists(p)
    \/ \E p \in Procs : Open(p)
    \/ \E p \in Procs : Read(p)
    \/ \E p \in Procs : Remove(p)

SpecDisk == InitPid /\ [][NextDisk]_vars

InitTwo ==
    /\ WatchInit /\ OtherInit /\ TermIdle /\ PidIdle /\ ParseIdle /\ SendIdle
    /\ PathIdle /\ UrnIdle

NextTwo ==
    \/ Register
    \/ OtherRegister
    \/ \E sig \in Watched : DeliverBoth(sig)
    \/ \E sig \in Watched : Handle(sig)
    \/ \E sig \in Watched : OtherHandle(sig)
    \/ \E h \in Handles : Recv(h)
    \/ OtherRecv
    \/ \E h \in Handles : DropHandle(h)
    \/ OtherDrop

SpecTwo == InitTwo /\ [][NextTwo]_vars

InitPath ==
    /\ PathInit /\ TermIdle /\ WatchIdle /\ PidIdle /\ ParseIdle /\ SendIdle
    /\ OtherIdle /\ UrnIdle

NextPath == GetPidFilePath

SpecPath == InitPath /\ [][NextPath]_vars

InitLag == LagInit /\ TermIdle /\ PidIdle /\ CallsIdle

NextLag ==
    \/ \E sig \in Watched : DeliverWithin(sig, ChannelCapacity + 1)
    \/ \E sig \in Watched : Handle(sig)
    \/ Recv(1)
    \/ DropHandle(1)

SpecLag == InitLag /\ [][NextLag]_vars

\* The runtime runs the watcher task when a stream is ready, and a subscriber
\* that holds a Receiver goes on calling recv().
FairSpecLag ==
    /\ SpecLag
    /\ \A sig \in Watched : WF_vars(Handle(sig))
    /\ WF_vars(Recv(1))

InitUrn ==
    /\ UrnInit /\ TermIdle /\ WatchIdle /\ PidIdle /\ ParseIdle /\ SendIdle
    /\ OtherIdle /\ PathIdle

NextUrn == NewUrn

SpecUrn == InitUrn /\ [][NextUrn]_vars

InitParse ==
    /\ ParseInit /\ TermIdle /\ WatchIdle /\ PidIdle /\ SendIdle /\ OtherIdle
    /\ PathIdle /\ UrnIdle

InitSend ==
    /\ SendInit /\ TermIdle /\ WatchIdle /\ PidIdle /\ ParseIdle /\ OtherIdle
    /\ PathIdle /\ UrnIdle

NextSend == SendSignal

SpecSend == InitSend /\ [][NextSend]_vars

NextParse == ReadPid

SpecParse == InitParse /\ [][NextParse]_vars

\* The runtime runs a runnable task, and time advances.
FairSpecTerm ==
    /\ SpecTerm
    /\ WF_vars(SendTerminate)
    /\ WF_vars(EnterPolling)
    /\ WF_vars(Poll)
    /\ WF_vars(SleepElapsed)
    /\ WF_vars(DeadlineElapsed)
    /\ SF_vars(Tick)

----------------------------------------------------------------------------
(* Properties of the PID file functions, checked under SpecPid *)

\* the pid text records, as read_pid reads it
Records(text, pid) == read_text(text) = PidSome(pid)

\* a's delete_pid_file_if_my_process and b's write_pid have both returned,
\* they are all the two processes did, and the file recorded a's pid before
TeardownMetWrite(a, b) ==
    /\ a /= b
    /\ file0 = [present |-> TRUE, text |-> to_string(a)]
    /\ done[a] = [n |-> 1, last |-> "delete_pid_file_if_my_process"]
    /\ done[b] = [n |-> 1, last |-> "write_pid"]
    /\ pop[a] = "none"
    /\ pop[b] = "none"

\* C1: when delete_pid_file_if_my_process of a process runs concurrently with
\* write_pid of another process, then under every interleaving of their steps
\* the teardown never removes a file that records the other process's pid,
\* and once both have returned the file exists and records the writer's pid.
C1_TeardownNeverRemovesOthersFile ==
    /\ removed.op = "delete_pid_file_if_my_process" =>
           \A q \in Procs \ {removed.by} : ~Records(removed.text, q)
    /\ \A a, b \in Procs :
           TeardownMetWrite(a, b) =>
               dirent /= 0 /\ Records(inodes[dirent], b)

\* C1, amended: a teardown that no other process overtook between opening
\* the file and removing it removes only a file that records its own pid, and
\* when the teardown was not overtaken the file exists and records the
\* writer's pid once both have returned.
C1_TeardownNotOvertakenIsSafe ==
    /\ (removed.op = "delete_pid_file_if_my_process" /\ ~removed.raced)
           => Records(removed.text, removed.by)
    /\ \A a, b \in Procs :
           (TeardownMetWrite(a, b) /\ ~overtaken) =>
               dirent /= 0 /\ Records(inodes[dirent], b)

\* the step just taken is a teardown removing the file that records its own
\* pid, not overtaken, while the other process is inside write_pid
C1_Witness ==
    \E b \in Procs \ {removed.by} :
        /\ removed.op = "delete_pid_file_if_my_process"
        /\ ~removed.raced
        /\ Records(removed.text, removed.by)
        /\ pop[b] = "write_pid"

----------------------------------------------------------------------------
(* Properties of watch_signal, checked under SpecWatch *)

\* the step is one turn of the watcher's loop taking the signal sig
Takes(sig) ==
    /\ wpc = "Watching"
    /\ dcount' = dcount
    /\ pendSeq[sig] /= 0
    /\ pendSeq'[sig] = 0
    /\ \/ sent' = Queue(sent, Event(sig))
       \/ wpanic' = SendPanic(sig)

\* C2: when the watcher takes a signal while no Receiver is alive, the event
\* is dropped without error: the task does not fail, nothing is queued, and
\* after SIGHUP or SIGCONT the watcher keeps watching.
C2_Step ==
    \A sig \in Watched :
        (Takes(sig) /\ LiveHandles = {}) =>
            /\ wpc' /= "Panicked"
            /\ sent' = sent
            /\ sig \notin TerminalSignals => wpc' = "Watching"

C2_NoSubscriberDropsEvent == [][C2_Step]_vars

----------------------------------------------------------------------------
(* Properties of terminate_process, checked under SpecTerm *)

\* C3: if every liveness probe of pid reports alive, the call ends in TimedOut
\* with TerminateProcessTimeout carrying the pid it was given, and it does so
\* no later than wait_timeout + retry_interval ticks after polling started
\* (polling starts at tick 0).
C3_NeverExitingTimesOut ==
    probeSeen = {"alive"} =>
        /\ now <= wait_timeout + retry_interval
        /\ tpc \in Terminal =>
             /\ tpc = "TimedOut"
             /\ tres = ErrResult("TerminateProcessTimeout", tpid, "")

C3_Witness ==
    /\ tpc = "TimedOut"
    /\ probeSeen = {"alive"}
    /\ wait_timeout > retry_interval
    /\ retry_interval > 0
    /\ lastProbeAt > 0

\* C4: the call follows Signaled -> Polling -> {Exited | TimedOut}: it returns
\* success only when the signal was dispatched and a probe made no later than
\* the deadline answered "not alive"; on the first such probe it is Exited
\* with Ok(()) at that same tick, and nothing of the call changes afterwards.
C4_Step ==
    /\ tres'.kind = "Ok" =>
         /\ tpc' = "Exited"
         /\ sendRes'.kind = "Ok"
         /\ termSignals' = <<SIGTERM>>
         /\ lastProbe' = "dead"
         /\ lastProbeAt' >= 0
         /\ lastProbeAt' <= deadline'
    /\ "dead" \in probeSeen' =>
         /\ tpc' = "Exited"
         /\ tres' = OkResult
         /\ lastProbe' = "dead"
         /\ now' = lastProbeAt'
    /\ tpc = "Exited" => UNCHANGED <<tpc, tres, now, wake, probeSeen,
                                     lastProbe, lastProbeAt>>
    /\ (tpc' = "Polling" /\ tpc /= "Polling") => tpc \in {"Signaled", "Sleeping"}
    /\ (tpc' = "Sleeping" /\ tpc /= "Sleeping") => tpc = "Polling"
    /\ (tpc' \in {"Exited", "TimedOut"} /\ tpc /= tpc') =>
         tpc \in {"Polling", "Sleeping"}
    /\ (tpc' = "Signaled" /\ tpc /= "Signaled") => tpc = "Called"

C5_EveryCallReturns ==
    /\ tres.kind \in {"Ok", "Err"} \/ ENABLED TermStep
    /\ tpc \in {"Polling", "Sleeping"} \cup Terminal => lastProbeAt <= deadline

\* Auxiliary to C5, under FairSpecTerm: every call ends (by returning or by
\* the panic of the failed send).
TerminateEnds == <>(tpc \in Terminal)

\* Auxiliary to C5: the loop never runs past the deadline.
PollLoopBounded ==
    tpc \in {"Polling", "Sleeping", "Exited", "TimedOut", "Failed"} =>
        /\ now <= deadline
        /\ lastProbeAt <= deadline
        /\ deadline = wait_timeout

\* C6: if the terminate signal cannot be dispatched, the call fails at once:
\* it never enters Polling, makes no liveness probe and does not return
\* success.
C6_SendFailureFailsAtOnce ==
    sendRes.kind = "Err" =>
        /\ tpc = "Panicked"
        /\ tres.kind \in {"Err", "Panic"}
        /\ probeSeen = {}
        /\ lastProbeAt = -1
        /\ now = 0
        /\ termSignals = <<>>

C6_Witness ==
    /\ sendRes = ErrResult("SendSignal", 0, "SIGTERM")
    /\ target = "gone"
    /\ tpc = "Panicked"

\* C7: an error of send_signal_by_instruction inside the call reaches the
\* caller as an Err value, ProcessError::Signal wrapping the signal error, and
\* not as a panic of the calling task.
C7_SendErrorReturned ==
    sendRes.kind = "Err" =>
        /\ tres.kind = "Err"
        /\ tres.err = "Signal"
        /\ tres.msg = sendRes.msg

\* The signalled target exited within one retry_interval of the signal: by
\* tick retry_interval and before the probe of that tick.
ExitedWithinInterval ==
    /\ exitedAt \in 0..retry_interval
    /\ probeAtExit < retry_interval

C9_ProbeErrorReturned ==
    "err" \in probeSeen =>
        /\ tpc = "Failed"
        /\ tres = ErrResult("CheckProcess", 0, "EOTHER")
        /\ lastProbe = "err"
        /\ now = lastProbeAt

C9_Witness ==
    /\ tpc = "Failed"
    /\ tres.err = "CheckProcess"
    /\ lastProbeAt > 0
    /\ now < deadline

----------------------------------------------------------------------------
(* Order of the broadcast events, checked under SpecWatch *)

\* C10: every subscriber receives the events in the order in which the OS
\* delivered their signals, also when signals of different classes are
\* pending at the same select!.
C10_DeliveryOrderKept ==
    \A h \in Handles : \A i, j \in DOMAIN rlog[h] :
        i < j => rlog[h][i].dseq < rlog[h][j].dseq

\* C10, amended: every subscriber receives an event before every event whose
\* signal was delivered after the watcher had taken the first one; only
\* signals that were pending together can change places.
C10_TakenOrderKept ==
    \A h \in Handles : \A i, j \in DOMAIN rlog[h] :
        rlog[h][i].hseq < rlog[h][j].dseq => i < j

\* a subscriber has received two events of different classes, the second
\* delivered after the watcher had taken the first
C10_Witness ==
    \E h \in Handles :
        /\ Len(rlog[h]) >= 2
        /\ rlog[h][1].sig /= rlog[h][2].sig
        /\ rlog[h][1].hseq < rlog[h][2].dseq

----------------------------------------------------------------------------
(* The watcher's loop after a broadcast, checked under SpecWatch *)

\* the watcher has broadcast SIGHUP or SIGCONT
BroadcastNonTerminal ==
    \E i \in DOMAIN sent : sent[i].sig \notin TerminalSignals

\* the step broadcasts sig and, for SIGHUP and SIGCONT, the loop goes on
BroadcastsAndGoesOn(sig) ==
    /\ sent' = Queue(sent, Event(sig))
    /\ sig \notin TerminalSignals => wpc' = "Watching"

\* C11: after the watcher has broadcast SIGHUP or SIGCONT it is still in its
\* loop, however many of them came, and every signal of the five watched
\* classes that it takes afterwards is broadcast.
C11_Step ==
    BroadcastNonTerminal =>
        /\ wpc /= "Panicked"
        /\ \A sig \in Watched : Takes(sig) => BroadcastsAndGoesOn(sig)

C11_WatcherKeepsBroadcasting == [][C11_Step]_vars

\* the same while a Receiver is alive at each take
KeepsBroadcastingWhileSubscribed ==
    [][\A sig \in Watched :
          (Takes(sig) /\ LiveHandles /= {}) => BroadcastsAndGoesOn(sig)]_vars

\* C12: a terminal event is the last value on the channel and the task has
\* left its loop; once the loop is left the task stays stopped, queues nothing
\* more and has no stream that could become ready, so at most one terminal
\* event is ever broadcast.
C12_Step ==
    /\ \A i \in DOMAIN sent' :
           sent'[i].sig \in TerminalSignals =>
               i = Len(sent') /\ wpc' = "Stopped"
    /\ wpc = "Stopped" =>
           /\ wpc' = "Stopped"
           /\ sent' = sent
           /\ \A sig \in Watched : pendSeq'[sig] = 0

C12_TerminalEventIsLast == [][C12_Step]_vars

\* the watcher stopped after a terminal broadcast and a watched signal was
\* delivered to the process afterwards
C12_Witness ==
    /\ wpc = "Stopped"
    /\ Len(sent) >= 1
    /\ sent[Len(sent)].sig \in TerminalSignals
    /\ dcount > sent[Len(sent)].hseq

----------------------------------------------------------------------------
(* Properties of PidFileGuard, checked under SpecGuard *)

\* C13: a guard comes into being only through a successful write_pid: the
\* step that makes the guard of a process is the step in which write_pid of
\* that process returns Ok, so a guard never exists without an earlier
\* successful write and a failed write leaves no guard to tear down.
C13_Step ==
    \A p \in Procs :
        (guard[p] = "none" /\ guard'[p] = "held") =>
            /\ pop[p] = "write_pid"
            /\ ppc[p] = "flush"
            /\ pop'[p] = "none"
            /\ pres'[p] = PidOk

C13_GuardOnlyFromWrite == [][C13_Step]_vars

\* C14: the teardown of a guard runs delete_pid_file_if_my_process and always
\* completes normally, whether the file is missing, corrupt, records another
\* pid or cannot be removed; when it removes a file without having been
\* overtaken, that file records the pid of the guard's process.
C14_TeardownNeverFails ==
    /\ \A p \in Procs :
           (done[p].last = "drop" /\ pop[p] = "none") =>
               pres[p].kind = "Ok" /\ guard[p] = "dropped"
    /\ (removed.op = "drop" /\ ~removed.raced) =>
           Records(removed.text, removed.by)

\* a teardown has completed although remove_file failed: the file recorded
\* the pid of the guard's process and was removed by the other process first
C14_Witness ==
    \E p \in Procs :
        /\ done[p].last = "drop"
        /\ pop[p] = "none"
        /\ guard[p] = "dropped"
        /\ pres[p].err = "DeletePidFile"

----------------------------------------------------------------------------
(* Round trip of write_pid and read_pid, checked under SpecPid *)

\* write_pid of a process has returned and nothing else has changed the file
\* since that call created or emptied it
Written == writer.state = "written"

\* C15: after write_pid of a process P has succeeded and while no other
\* writer has touched the path, the file holds the decimal text of P's pid,
\* whatever it held before, and read_pid of that file returns Some(P's pid);
\* this holds for the read_pid calls of P itself.
C15_Step ==
    Written =>
        /\ dirent /= 0
        /\ \A q \in Procs :
               (pop[q] = "read_pid" /\ pop'[q] = "none") =>
                   /\ ppc[q] = "read"
                   /\ q = writer.pid => pfd[q] = dirent
                   /\ pfd[q] = dirent => pres'[q] = PidSome(writer.pid)

C15_WriteThenRead == [][C15_Step]_vars

\* the path held a longer text, process 1234 wrote its pid and then read it
C15_Witness ==
    /\ file0.present
    /\ Len(file0.text) > Len(to_string(1234))
    /\ Written
    /\ writer.pid = 1234
    /\ done[1234] = [n |-> 2, last |-> "read_pid"]
    /\ pres[1234] = PidSome(1234)

----------------------------------------------------------------------------
(* delete_pid_file_if_my_process and delete_pid_file, checked under SpecPid *)

\* process p takes the step of its call of op that stands at position pc
StepOf(p, op, pc) == pop[p] = op /\ ppc[p] = pc /\ ppc'[p] /= pc

\* what the read of the file that p has opened gives
ReadOf(p) == read_text(inodes[pfd[p]])

\* C16: delete_pid_file_if_my_process called by a process whose pid differs
\* from the pid recorded in the file is a no-op: it returns success without
\* calling remove_file, the path still names the same file and the content of
\* the file is unchanged.
C16_Step ==
    \A p \in Procs :
        (/\ StepOf(p, "delete_pid_file_if_my_process", "read")
         /\ ReadOf(p).kind = "Ok" /\ ReadOf(p).some /\ ReadOf(p).pid /= p) =>
            /\ pop'[p] = "none"
            /\ pres'[p] = PidOk
            /\ removed' = NoRemoval
            /\ dirent' = dirent
            /\ dirent /= 0 => inodes'[dirent] = inodes[dirent]

C16_NotOwnerIsNoOp == [][C16_Step]_vars

\* the file recorded 56789, process 1234 alone called
\* delete_pid_file_if_my_process, and the file is still there, unchanged
C16_Witness ==
    /\ file0 = [present |-> TRUE, text |-> to_string(56789)]
    /\ done[1234] = [n |-> 1, last |-> "delete_pid_file_if_my_process"]
    /\ pop[1234] = "none"
    /\ pres[1234] = PidOk
    /\ done[56789].n = 0 /\ pop[56789] = "none"
    /\ dirent /= 0
    /\ inodes[dirent] = to_string(56789)

\* C17: delete_pid_file_if_my_process called by the process whose pid the
\* file records goes on to remove_file, after which the path names no file
\* (the call returns success when the file was still there), and a read_pid
\* that finds no file at the path returns None.
C17_Step ==
    \A p \in Procs :
        /\ (StepOf(p, "delete_pid_file_if_my_process", "read")
               /\ ReadOf(p) = PidSome(p)) =>
               /\ pop'[p] = "delete_pid_file_if_my_process"
               /\ ppc'[p] = "remove"
        /\ StepOf(p, "delete_pid_file_if_my_process", "remove") =>
               /\ dirent' = 0
               /\ pop'[p] = "none"
               /\ dirent /= 0 => pres'[p] = PidOk
        /\ (StepOf(p, "read_pid", "exists") /\ dirent = 0) =>
               /\ pop'[p] = "none"
               /\ pres'[p] = PidOk

C17_OwnerRemovesFile == [][C17_Step]_vars

\* the file recorded 1234; process 1234 alone has called
\* delete_pid_file_if_my_process, the file is gone, and it now calls read_pid
C17_Witness ==
    /\ file0 = [present |-> TRUE, text |-> to_string(1234)]
    /\ done[1234] = [n |-> 1, last |-> "delete_pid_file_if_my_process"]
    /\ pres[1234] = PidOk
    /\ pop[1234] = "read_pid" /\ ppc[1234] = "exists"
    /\ done[56789].n = 0 /\ pop[56789] = "none"
    /\ dirent = 0

\* C18: delete_pid_file_if_my_process propagates read failures: when its
\* read_pid fails (the file cannot be opened, is empty, or its content is not
\* an integer), the call returns that error instead of success.
C18_Step ==
    \A p \in Procs :
        /\ (StepOf(p, "delete_pid_file_if_my_process", "read")
               /\ ReadOf(p).kind = "Err") =>
               /\ pop'[p] = "none"
               /\ pres'[p] = ReadOf(p)
        /\ (StepOf(p, "delete_pid_file_if_my_process", "open")
               /\ dirent = 0) =>
               /\ pop'[p] = "none"
               /\ pres'[p] = PidErr("OpenPidFile")

C18_ReadFailurePropagates == [][C18_Step]_vars

\* C19: delete_pid_file is not idempotent: a successful call leaves the path
\* naming no file, and a call on a path that names no file fails with
\* DeletePidFile and changes nothing; so the second of two calls fails.
C19_Step ==
    \A p \in Procs :
        StepOf(p, "delete_pid_file", "remove") =>
            /\ pop'[p] = "none"
            /\ dirent' = 0
            /\ IF dirent = 0
               THEN /\ pres'[p] = PidErr("DeletePidFile")
                    /\ inodes' = inodes
                    /\ removed' = NoRemoval
               ELSE pres'[p] = PidOk

----------------------------------------------------------------------------
(* read_pid as a function of the file, checked under SpecParse *)

\* a decimal integer of pid_t: an optional sign, then one or more digits, the
\* value within 32 bits (texts here have at most nine digits)
ValidInteger(t) ==
    LET ds == IF t /= <<>> /\ t[1] \in {"+", "-"} THEN Tail(t) ELSE t
        v == IF t /= <<>> /\ t[1] = "-" THEN 0 - DigitsValue(ds)
             ELSE DigitsValue(ds)
    IN /\ ds /= <<>>
       /\ \A i \in 1..Len(ds) : IsDigit(ds[i])
       /\ Len(ds) <= 9
       /\ v <= I32Max /\ v >= (0 - I32Max) - 1

\* the trimmed first line of the file read_pid was given
TrimmedFirstLine == trim(first_line(rfile.text))

ReadPidReturned == rres /= PidNoResult

C21_PidIsPositive ==
    ReadPidReturned =>
        /\ rres.some => rres.pid > 0
        /\ (rfile.present /\ TrimmedFirstLine \in {<<"0">>, <<"-", "1">>}) =>
               rres.kind = "Err"

----------------------------------------------------------------------------
(* write_pid on a file system that can fail, checked under SpecDisk *)

\* write_pid of a process has returned Ok and nothing else has changed the
\* file since that call created or emptied it
WriteReturnedOk == writer.state \in {"written", "failed"}

\* C15 (on a file system that can fail): after write_pid of a process P has
\* returned Ok and while no other writer has touched the path, read_pid of
\* that file returns Some(P's pid).
C15_FaultStep ==
    WriteReturnedOk =>
        \A q \in Procs :
            (pop[q] = "read_pid" /\ pop'[q] = "none" /\ ppc[q] = "read"
                 /\ pfd[q] = dirent) =>
                pres'[q] = PidSome(writer.pid)

C15_ReadsBackAfterOk == [][C15_FaultStep]_vars

\* C22: whole write or error: write_pid returns Ok only if the file at the
\* path then holds the complete decimal text of the pid of the caller; when
\* delivering the bytes to the file fails after the file was created,
\* write_pid returns WritePidFile and not Ok.
C22_Step ==
    \A p \in Procs :
        StepOf(p, "write_pid", "flush") =>
            /\ pop'[p] = "none"
            /\ (pres'[p] = PidOk /\ pfd[p] = dirent) =>
                   inodes'[dirent] = to_string(p)
            /\ writer'.state = "failed" => pres'[p] = PidErr("WritePidFile")

C22_WholeWriteOrError == [][C22_Step]_vars

----------------------------------------------------------------------------
(* send_signal_by_instruction, checked under SpecSend *)

SendReturned == sres /= NoResult

\* the one call of kill() with signal number n for the pid given
OneKill(n) == <<[pid |-> spid, sig |-> n]>>

\* C23: for every instruction whose lower-cased form is not one of hangup,
\* cont, interrupt, terminate, stop, quit, kill, send_signal_by_instruction
\* fails with InvalidInstruction and kill() is not called for any pid.
C23_InvalidSendsNothing ==
    (SendReturned /\ \A t \in ValidInstructions : sinstr \notin CaseForms(t))
        => /\ sres.kind = "Err"
           /\ sres.err = "InvalidInstruction"
           /\ skills = NoKills

C23_Witness ==
    /\ sinstr = <<"e","x","p","l","o","d","e">>
    /\ sres.err = "InvalidInstruction"
    /\ skills = NoKills

\* what the call with instruction t gives for the same pid and process
OutcomeOf(t) ==
    LET r == send_signal_by_instruction(t, spid, OsKill(starget))
    IN [res |-> r.res,
        calls |-> IF r.killed = 0 THEN NoKills ELSE OneKill(r.killed)]

\* C24: send_signal_by_instruction is case-insensitive: for an instruction in
\* any case and any pid, the call and the call with the lower-case instruction
\* send the identical signal to the same pid, or both fail with the same
\* error.
C24_CaseInsensitive ==
    SendReturned =>
        \A t \in ValidInstructions \cup InvalidInstructions :
            sinstr \in CaseForms(t) =>
                [res |-> sres, calls |-> skills] = OutcomeOf(t)

C24_Witness ==
    /\ sinstr = <<"K","I","L","L">>
    /\ sres = OkResult
    /\ skills = OneKill(9)

\* C25: hangup is sent as signal 1, interrupt as 2, quit as 3, kill as 9,
\* terminate and stop both as 15, cont as 18, and exactly that one signal goes
\* to exactly the pid given.
C25_InstructionMapping ==
    SendReturned =>
        /\ sinstr \in CaseForms(InstrHangup)    => skills = OneKill(1)
        /\ sinstr \in CaseForms(InstrInterrupt) => skills = OneKill(2)
        /\ sinstr \in CaseForms(InstrQuit)      => skills = OneKill(3)
        /\ sinstr \in CaseForms(InstrKill)      => skills = OneKill(9)
        /\ sinstr \in CaseForms(InstrTerminate) => skills = OneKill(15)
        /\ sinstr \in CaseForms(InstrStop)      => skills = OneKill(15)
        /\ sinstr \in CaseForms(InstrCont)      => skills = OneKill(18)

C25_Witness ==
    /\ sinstr = InstrStop
    /\ starget = "alive"
    /\ sres = OkResult
    /\ skills = OneKill(15)

\* C26: a call of send_signal_by_instruction calls kill() at most once: when
\* the OS rejects the signal, the call returns SendSignal to its caller and
\* has not tried again.
C26_NoRetry ==
    /\ Len(skills) <= 1
    /\ (SendReturned /\ starget /= "alive" /\ skills /= NoKills) =>
           /\ sres.kind = "Err"
           /\ sres.err = "SendSignal"
           /\ Len(skills) = 1

C26_Witness ==
    /\ starget = "gone"
    /\ sres.err = "SendSignal"
    /\ Len(skills) = 1

\* C27: the SendSignal error wraps the OS error: the rejection of the same
\* signal for the other reason (no such process, permission denied) gives
\* an error value that differs from the one returned.
C27_ErrorNamesReason ==
    (SendReturned /\ sres.err = "SendSignal") =>
        \A other \in {"foreign", "gone"} \ {starget} :
            send_signal_by_instruction(sinstr, spid, OsKill(other)).res
                /= sres

----------------------------------------------------------------------------
(* check_process, at each call made by wait_for_process_exit, checked under
   SpecTerm *)

\* the loop of wait_for_process_exit calls check_process in this step
Probes == tpc = "Polling" /\ tpc' /= "Polling"

\* C28: check_process(pid) returns true when the OS accepts signal 0, false
\* when the OS reports no such process (ESRCH), true when it reports
\* permission denied (EPERM), and fails with CheckProcess for every other OS
\* error; no signal is delivered to the target, whose state does not change.
C28_Step ==
    Probes =>
        /\ lastErrno' \in OsProbe(target)
        /\ lastErrno' = "OK" => lastProbe' = "alive"
        /\ lastErrno' = "ESRCH" => lastProbe' = "dead"
        /\ lastErrno' = "EPERM" => lastProbe' = "alive"
        /\ lastErrno' \notin {"OK", "ESRCH", "EPERM"} =>
               /\ lastProbe' = "err"
               /\ tres'.kind = "Err" /\ tres'.err = "CheckProcess"
        /\ termSignals' = termSignals
        /\ target' = target

C28_CheckProcessAnswers == [][C28_Step]_vars

\* a process of another user was probed and counted as alive
C28_Witness ==
    /\ lastErrno = "EPERM"
    /\ lastProbe = "alive"
    /\ tpc \in {"Sleeping", "TimedOut"}

----------------------------------------------------------------------------
(* Two watchers, checked under SpecTwo *)

\* no delivery of a signal is queued twice on the channel q
EachDeliveryOnce(q) ==
    \A i, j \in 1..Len(q) : q[i].dseq = q[j].dseq => i = j

\* every value of the log l came from the channel q
FromChannel(l, q) == \A i \in 1..Len(l) : \E j \in 1..Len(q) : l[i] = q[j]

\* C29: two watchers made by two watch_signal() calls are independent: each
\* Receiver receives each delivered signal at most once and only from the
\* channel of its own watcher, and what a watcher broadcasts does not change
\* when every Receiver of the other one is dropped: a step of one watcher or
\* of its Receivers leaves the other watcher, its channel and its Receivers
\* as they are, and a watcher that has a Receiver broadcasts the signal it
\* takes whatever has become of the other.
C29_Step ==
    /\ EachDeliveryOnce(sent) /\ EachDeliveryOnce(osent)
    /\ \A h \in Handles : FromChannel(rlog[h], sent) /\ EachDeliveryOnce(rlog[h])
    /\ FromChannel(olog, osent) /\ EachDeliveryOnce(olog)
    /\ dcount' = dcount => (UNCHANGED wvars \/ UNCHANGED ovars)
    /\ \A sig \in Watched :
           (Takes(sig) /\ LiveHandles /= {}) =>
               /\ sent' = Queue(sent, Event(sig))
               /\ wpc' = after_branch(sig)

C29_WatchersIndependent == [][C29_Step]_vars

\* the second watcher has lost its Receiver and has panicked on a signal; the
\* Receiver of the first has received every signal delivered
C29_Witness ==
    /\ opc = "Panicked"
    /\ orecv = "dropped"
    /\ dcount = MaxSignals
    /\ Len(rlog[1]) = MaxSignals

----------------------------------------------------------------------------
(* get_pid_file_path, checked under SpecPath *)

\* C30: for every application file path (a path that has a file name),
\* get_pid_file_path returns a path whose extension is "pid" with the
\* directory and the file stem unchanged, and applying it twice gives the
\* same path as applying it once.
C30_PidExtension ==
    file_name(gpath) /= <<>> =>
        /\ Len(gout) >= 1 =>
               /\ extension(gout[1]) = <<"p", "i", "d">>
               /\ directory(gout[1]) = directory(gpath)
               /\ file_stem(gout[1]) = file_stem(gpath)
        /\ Len(gout) >= 2 => gout[2] = gout[1]

\* "run/app.tar.gz" has become "run/app.tar.pid", and stays that
C30_Witness ==
    /\ gpath = <<"r","u","n","/","a","p","p",".","t","a","r",".","g","z">>
    /\ Len(gout) = 2
    /\ gout[2] = <<"r","u","n","/","a","p","p",".","t","a","r",".","p","i","d">>

----------------------------------------------------------------------------
(* Urn::new *)

UrnReturned == ures /= UrnNone

MethodNames ==
    [g |-> <<"g", "e", "t">>, p |-> <<"p", "o", "s", "t">>,
     u |-> <<"p", "u", "t">>, d |-> <<"d", "e", "l", "e", "t", "e">>]

MethodNamed(k) ==
    CASE k = "g" -> "Get" [] k = "p" -> "Post" [] k = "u" -> "Put"
      [] k = "d" -> "Delete"

\* C31: given a method name in any case, a ":" and a remainder that is not
\* blank, Urn::new returns the method of that name and the remainder trimmed,
\* later colons included: only the first ":" separates.
C31_SplitsAtFirstColon ==
    UrnReturned =>
        \A k \in DOMAIN MethodNames : \A w \in CaseForms(MethodNames[k]) :
            \A l \in UrnPads : \A r \in UrnPads : \A u \in UrnRests :
                (uin = l \o w \o r \o <<":">> \o u /\ trim(u) /= <<>>)
                    => ures = UrnOk(MethodNamed(k), trim(u))

C31_Witness ==
    /\ uin = <<"P", "o", "s", "t", ":", " ", "a", ".", "c", "o", ":", "8",
               "/", "x", ":", " ">>
    /\ ures = UrnOk("Post", <<"a", ".", "c", "o", ":", "8", "/", "x", ":">>)

C33_BlankUrlPanics ==
    UrnReturned =>
        \A l \in UrnPads : \A w \in UNION {CaseForms(m) : m \in MethodWords} :
            \A r \in UrnPads : \A u \in {<<>>, <<" ">>} :
                uin = l \o w \o r \o <<":">> \o u
                    => ures.kind = "Panic" /\ ures.msg = "Invalid URN"

\* ... as it is for every such text that does not start with "http:" or
\* "https:"
C33_BlankUrlPanicsUnlessPrefix ==
    UrnReturned =>
        \A l \in UrnPads : \A w \in UNION {CaseForms(m) : m \in MethodWords} :
            \A r \in UrnPads : \A u \in {<<>>, <<" ">>} :
                (/\ uin = l \o w \o r \o <<":">> \o u
                 /\ ~starts_with(uin, HttpPrefix)
                 /\ ~starts_with(uin, HttpsPrefix))
                    => ures.kind = "Panic" /\ ures.msg = "Invalid URN"

C33_PrefixAloneReturns ==
    /\ uin = HttpPrefix
    /\ ures = UrnOk("Get", HttpPrefix)

----------------------------------------------------------------------------
(* terminate_process: what its probes can and cannot see *)

\* the call is suspended in sleep(retry_interval) and only the delay of the
\* timeout wrapper is due
DelayDueAsleep ==
    tpc = "Sleeping" /\ timeout_elapsed(now, deadline) /\ ~sleep_elapsed(now, wake)

\* C34: the call learns of the target's exit only from a probe.  It returns
\* TerminateProcessTimeout exactly when the delay is due while it is
\* suspended after a probe that answered alive: every probe before that
\* answered alive, the target's state is not looked at again (an exit after
\* the last probe goes unseen), and success is returned only at the instant
\* of a probe that answered not alive.
C34_Step ==
    /\ (tpc /= "TimedOut" /\ tpc' = "TimedOut") =>
          /\ tpc \in {"Polling", "Sleeping"}
          /\ timeout_elapsed(now', deadline')
          /\ lastProbe' = "alive"
          /\ probeSeen' = {"alive"}
          /\ tres' = TerminateProcessTimeout(tpid)
          /\ target' = target
          /\ tpc = "Sleeping" => lastProbeAt' = lastProbeAt
    /\ (DelayDueAsleep /\ tpc' /= tpc) => tpc' = "TimedOut"
    /\ (tpc = "Sleeping" /\ tpc' = "Sleeping") => tres' = tres
    /\ (tpc /= "Exited" /\ tpc' = "Exited") =>
          /\ tpc = "Polling"
          /\ lastProbe' = "dead"
          /\ lastProbeAt' = now'
          /\ target = "gone"

C34_ExitSeenOnlyAtProbes == [][C34_Step]_vars

\* the target exited after the last probe and the call timed out
C34_Witness ==
    /\ tpc = "TimedOut"
    /\ target = "gone"
    /\ exitedAt >= lastProbeAt
    /\ probeAtExit = lastProbeAt
    /\ lastProbeAt > 0
    /\ now > lastProbeAt

\* C35: the first probe is made right after the signal was sent, at the tick
\* of the call and before any sleep, and the delay of the timeout is looked
\* at only after it: with a timeout of zero the call makes one probe and
\* returns Ok(()) when it answers not alive and TerminateProcessTimeout when
\* it answers alive.
C35_ProbesBeforeDelay ==
    /\ (tpc \in {"Called", "Signaled"} \/ probeSeen = {}) =>
          now = 0 /\ lastProbeAt = -1
    /\ probeSeen /= {} => sendRes = OkResult /\ termSignals /= <<>>
    /\ (wait_timeout = 0 /\ tpc \in {"Sleeping", "Exited", "TimedOut", "Failed"}) =>
          /\ tpc /= "Sleeping"
          /\ now = 0
          /\ lastProbeAt = 0
          /\ lastProbe = "dead" => tpc = "Exited" /\ tres = OkResult
          /\ lastProbe = "alive" =>
                tpc = "TimedOut" /\ tres = TerminateProcessTimeout(tpid)

C35_Witness ==
    /\ wait_timeout = 0
    /\ tpc = "Exited"
    /\ tres = OkResult
    /\ target = "gone"
    /\ exitedAt = 0
    /\ lastProbeAt = 0

C35_WitnessTimeout ==
    /\ wait_timeout = 0
    /\ tpc = "TimedOut"
    /\ lastProbe = "alive"
    /\ now = 0

\* C36: the target receives one signal from the call, SIGTERM, when the call
\* starts: nothing is sent again while the call polls or when it times out,
\* and after TerminateProcessTimeout the target has received SIGTERM once
\* and nothing else.
C36_OneSigterm ==
    /\ tpc \in {"Signaled", "Polling", "Sleeping", "Exited", "TimedOut", "Failed"}
          => termSignals = <<SIGTERM>>
    /\ tpc \in {"Called", "Panicked"} => termSignals = <<>>

C36_Witness ==
    /\ tpc = "TimedOut"
    /\ termSignals = <<SIGTERM>>
    /\ target \in {"alive", "foreign"}
    /\ lastProbeAt > 0

----------------------------------------------------------------------------
(* Signals that arrive while the watcher task registers its streams *)

\* the OS delivers a signal
Delivery == dcount' = dcount + 1

\* the classes whose signal(..) call has not been made yet
NoStreamYet ==
    CASE wpc = "Spawned" -> {SIGHUP, SIGCONT, SIGINT, SIGQUIT, SIGTERM}
      [] wpc = "Reg1" -> {SIGCONT, SIGINT, SIGQUIT, SIGTERM}
      [] wpc = "Reg2" -> {SIGINT, SIGQUIT, SIGTERM}
      [] wpc = "Reg3" -> {SIGQUIT, SIGTERM}
      [] wpc = "Reg4" -> {SIGTERM}
      [] OTHER -> {}

\* what is broadcast is what a stream holds
SendsWhatStreamsHold ==
    sent' /= sent =>
        /\ wpc = "Watching"
        /\ \E sig \in Watched :
              /\ pendSeq[sig] /= 0
              /\ sent' = Append(sent, [sig |-> sig, dseq |-> pendSeq[sig],
                                       hseq |-> dcount])

\* C38 as stated: watch_signal() returns before the task has registered its
\* streams, and a signal delivered before the fifth stream is registered is
\* held by no stream, so it is never broadcast.
C38_Step ==
    /\ SendsWhatStreamsHold
    /\ (Delivery /\ wpc \in {"Spawned", "Reg1", "Reg2", "Reg3", "Reg4"}) =>
          pendSeq' = pendSeq

C38_LostBeforeRegistrationCompletes == [][C38_Step]_vars

\* C38 amended: watch_signal() returns before the task has registered its
\* streams, and a signal delivered before the stream of its class is
\* registered is held by no stream, so it is never broadcast.
C38_StepOfClass ==
    /\ SendsWhatStreamsHold
    /\ Delivery => \A sig \in NoStreamYet : pendSeq'[sig] = pendSeq[sig]
    /\ wpc = "Spawned" => sent = <<>> /\ \A sig \in Watched : pendSeq[sig] = 0

C38_LostBeforeItsStream == [][C38_StepOfClass]_vars

\* signals were delivered before their streams existed, the task is in its
\* loop with all five streams, and no stream holds anything
C38_Witness ==
    /\ wpc = "Watching"
    /\ dcount = MaxSignals
    /\ sent = <<>>
    /\ \A sig \in Watched : pendSeq[sig] = 0

\* a SIGHUP delivered after the first stream was registered and before the
\* second is held by its stream
C38_HeldWhileRegistering ==
    /\ wpc = "Reg1"
    /\ pendSeq[SIGHUP] = 1

----------------------------------------------------------------------------
(* A subscriber that lags behind the broadcast *)

\* the task has broadcast a signal of a class that ends its loop, and h was
\* subscribed before that and has not received it yet
AwaitsTerminal(h) ==
    wpc = "Stopped" /\ rstate[h] = "live" /\ rnext[h] < Len(sent)

\* h has received the last value that was broadcast and then Closed
ClosedAfterLast(h) ==
    /\ rlast[h] = "Closed"
    /\ rlog[h] /= <<>>
    /\ rlog[h][Len(rlog[h])] = sent[Len(sent)]

\* C37: a subscriber that holds its Receiver when a signal of a class that
\* ends the loop is broadcast goes on to receive that signal, however many
\* values it has missed, and then Closed: that signal is the last value of
\* the channel, a lagging Receiver loses only the oldest values, never the
\* last, and recv() does not wait once the task has ended.
C37_TerminalStillReceived ==
    /\ [](wpc = "Stopped" =>
             /\ sent /= <<>>
             /\ sent[Len(sent)].sig \in TerminalSignals
             /\ \A i \in 1..(Len(sent) - 1) : sent[i].sig \notin TerminalSignals)
    /\ \A h \in Handles :
          [](AwaitsTerminal(h) => <>(rstate[h] /= "live" \/ ClosedAfterLast(h)))
    /\ \A h \in Handles :
          [](rlast[h] = "Closed" => wpc \in {"Stopped", "Panicked"} /\ rnext[h] = Len(sent))

\* the first Receiver never received before the task ended, missed the
\* oldest values, and has received the last sixteen and then Closed
C37_Witness ==
    /\ wpc = "Stopped"
    /\ Len(sent) > ChannelCapacity
    /\ rstate[1] = "live"
    /\ Len(rlog[1]) = ChannelCapacity
    /\ ClosedAfterLast(1)

====
